---- MODULE Spec2Model ----
(***************************************************************************)
(* Model of the position-sizing evaluator of mc-trade-sizing:              *)
(* strategy_static / strategy_dynamic / make_condition_func /              *)
(* calculate_drawdown, in the two simulator variants of the repository     *)
(* (dps_sub.py and MyTradingSimulator_sub.py).                             *)
(*                                                                         *)
(* Spec: one behaviour is one evaluation of one policy over one trade      *)
(* sequence: the dispatch of run_all_strategies, the loop of               *)
(* strategy_dynamic one iteration per step, and the final sum / drawdown   *)
(* computation.                                                            *)
(* SpecRun: the inner Monte Carlo loop of run_all_strategies: shuffle,     *)
(* then policies 1..20 in order on the shuffled buffer, each sample        *)
(* appended to summary.                                                    *)
(***************************************************************************)
EXTENDS Integers, Sequences, FiniteSets, TLC

\* Longest trade sequence evaluated.
MaxLen == 5

\* Largest num_trades handed to the phased and the Markov generators.
GenTrades == 10

\* Largest num_trades handed to the regime-switching generator.
RegimeTrades == 4

\* Longest regimes list handed to the regime-switching generator.
MaxRegimes == 2

\* Largest 'length' of a regime in that list.
MaxRegimeLen == 2

\* Longest base sequence of a Monte Carlo run.
RunLen == 4

\* num_mc_shuffles of the run.
NumMcShuffles == 2

\* num_simulations of the run.
NumSimulations == 2

\* Trade outcomes: a win amount (> 0) or a negated loss amount (< 0).
Outcomes == {100, -100, 300}

Variants == {"dps_sub", "MyTradingSimulator_sub"}

PolicyIds == 1..20

VARIABLES
    variant,            \* which simulator file is running
    strategy_id,        \* policy id i of run_all_strategies' inner loop
    results,            \* the (shuffled) trade sequence handed to the evaluator
    pc,                 \* "simulate" | "shuffle" | "call" | "loop" | "done" |
                        \* "raised" | "finished" | "returned" | "gen_call" |
                        \* "gen_loop" | "gen_after" | "gen_markov" | "gen_done"
    i,                  \* number of loop iterations of strategy_dynamic completed
    position_size,      \* local position_size of strategy_dynamic
    state,              \* the state dict of strategy_dynamic
    equity,             \* the list of per-trade contributions
    cumulative_equity,  \* np.cumsum of the contributions
    total_profit,       \* first component of the returned sample
    drawdown,           \* second component of the returned sample
    sizes,              \* position_size in effect at each evaluated trade
    modes,              \* state['mode'] in effect at each evaluated trade
    summary,            \* summary[i]: the samples appended for policy i
    mc,                 \* shuffles of the inner Monte Carlo loop started so far
    sim,                \* outer iterations of run_all_strategies started so far
    summary_final,      \* the ranked list run_all_strategies returns
    gen_model,          \* which trade generator is running
    gen_args,           \* its hit_rate (in percent), avg_win and avg_loss
    num_trades,         \* the num_trades argument
    regimes,            \* the regimes argument of simulate_trades_regime_switch
    phases,             \* the phase / regime list the generator iterates over
    trades_left,        \* local trades_left of the generator
    phase_idx,          \* position of the generator's for loop
    mode,               \* the mode string main derives from its arguments
    breakeven,          \* the value find_break_even_hit_rate returned
    rng_seed,           \* the seed numpy's global generator was given
    rng,                \* the state of numpy's global generator
    run,                \* which of the two seeded runs is executing
    trace,              \* the buffers this run generated and shuffled so far
    first_trace,        \* trace of the first seeded run
    first_final,        \* ranked list the first seeded run returned
    simulation_cmds,    \* dps.main: (run index, command, label, hit rate) tuples
    html_blocks,        \* dps.main: header block of each run
    system_exit,        \* code of the SystemExit in flight, -1 if none
    returncodes,        \* dps.main: return code of each finished run, -1 before
    running,            \* runs a pool worker is executing
    started,            \* number of runs handed to a worker so far
    html_tables,        \* (idx, output) of the runs collected so far
    html_file,          \* (header block, output) pairs written to the HTML file
    files,              \* result files written so far
    exit_code,          \* exit status of the process, -1 while it is alive
    stdin,              \* lines typed and not yet read
    readers,            \* reader threads blocked in sys.stdin.readline()
    queues,             \* result queue of each timed_input call
    typed,              \* what the user typed while each prompt was shown
    answer,             \* value returned by the first timed_input call
    run_api,            \* value returned by the second timed_input call
    api_timeout,        \* timeout_duration of start_api
    elapsed,            \* seconds the timer thread has slept
    timer,              \* position of the stop_server thread
    server,             \* state of the Flask server
    gets                \* GET /api/simulations requests served

\* The variables of the trade generators.
genVars == <<gen_model, gen_args, num_trades, regimes, phases, trades_left, phase_idx>>

\* The variables of the outer loop and of the ranking.
aggVars == <<sim, summary_final>>

vars == <<variant, strategy_id, results, pc, i, position_size, state, equity,
          cumulative_equity, total_profit, drawdown, sizes, modes, summary, mc,
          sim, summary_final, gen_model, gen_args, num_trades, regimes,
          phases, trades_left, phase_idx, mode, breakeven, rng_seed, rng, run,
          trace, first_trace, first_final, simulation_cmds, html_blocks,
          system_exit, returncodes, running, started,
          html_tables, html_file, files, exit_code, stdin, readers,
          queues, typed, answer, run_api, api_timeout, elapsed, timer, server,
          gets>>

\* The variables of the orchestrator dps.main and of the REST API.
orchVars == <<simulation_cmds, html_blocks, system_exit, returncodes, running,
              started, html_tables, html_file, files,
              exit_code, stdin, readers, queues, typed, answer, run_api,
              api_timeout, elapsed, timer, server, gets>>

\* Their values while the orchestrator is not modelled.
OrchIdle ==
    /\ simulation_cmds = <<>>
    /\ html_blocks = <<>>
    /\ system_exit = -1
    /\ returncodes = <<>>
    /\ running = {}
    /\ started = 0
    /\ html_tables = <<>>
    /\ html_file = <<>>
    /\ files = {}
    /\ exit_code = -1
    /\ stdin = <<>>
    /\ readers = {}
    /\ queues = <<>>
    /\ typed = <<>>
    /\ answer = "unset"
    /\ run_api = "unset"
    /\ api_timeout = 0
    /\ elapsed = 0
    /\ timer = "none"
    /\ server = "none"
    /\ gets = 0

\* The variables of the callers of run_all_strategies.
mainVars == <<mode, breakeven, rng_seed, rng, run, trace, first_trace,
              first_final, orchVars>>

\* Their values while no caller is modelled.
MainIdle ==
    /\ mode = "No Markov"
    /\ breakeven = [kind |-> "unset", num |-> 0, den |-> 1]
    /\ rng_seed = 0
    /\ rng = 0
    /\ run = 0
    /\ trace = <<>>
    /\ first_trace = <<>>
    /\ first_final = <<>>
    /\ OrchIdle

----------------------------------------------------------------------------
(* numpy helpers, computed element by element as numpy computes them *)

RECURSIVE np_sum(_)
np_sum(s) == IF s = <<>> THEN 0 ELSE Head(s) + np_sum(Tail(s))

RECURSIVE np_cumsum_from(_, _)
np_cumsum_from(acc, s) ==
    IF s = <<>> THEN <<>>
    ELSE <<acc + Head(s)>> \o np_cumsum_from(acc + Head(s), Tail(s))

np_cumsum(s) == np_cumsum_from(0, s)

Max2(a, b) == IF a >= b THEN a ELSE b

Min2(a, b) == IF a <= b THEN a ELSE b

RECURSIVE np_maximum_accumulate_from(_, _)
np_maximum_accumulate_from(m, s) ==
    IF s = <<>> THEN <<>>
    ELSE <<Max2(m, Head(s))>> \o np_maximum_accumulate_from(Max2(m, Head(s)), Tail(s))

\* np.maximum.accumulate: the running maximum starts at the first element.
np_maximum_accumulate(s) ==
    IF s = <<>> THEN <<>>
    ELSE <<Head(s)>> \o np_maximum_accumulate_from(Head(s), Tail(s))

RECURSIVE np_min(_)
\* np.min of a non-empty array (the empty array raises ValueError).
np_min(s) == IF Len(s) = 1 THEN s[1] ELSE Min2(Head(s), np_min(Tail(s)))

\* A variant of the running peak that starts from a zero balance.
calculate_drawdown_peak0(equity_curve) ==
    LET peak == np_maximum_accumulate_from(0, equity_curve)
        drawdowns == [j \in 1..Len(equity_curve) |-> equity_curve[j] - peak[j]]
    IN  np_min(drawdowns)

calculate_drawdown(equity_curve) ==
    LET peak == np_maximum_accumulate(equity_curve)
        drawdowns == [j \in 1..Len(equity_curve) |-> equity_curve[j] - peak[j]]
    IN  np_min(drawdowns)

----------------------------------------------------------------------------
(* StrategyState *)

\* dps_sub:  {'win_streak','loss_streak','mode','last_result','last2_result'}
\* MyTradingSimulator_sub: {'win_streak','loss_streak','mode'}; the keys
\* 'paused', 'last_size' and 'last_result' are read with .get(key, default)
\* and so behave as if present with their defaults.
FreshState ==
    [win_streak |-> 0, loss_streak |-> 0, mode |-> "trading",
     last_result |-> 0, last2_result |-> 0, paused |-> FALSE, last_size |-> 1]

Ret(size, st) == [size |-> size, state |-> st]

----------------------------------------------------------------------------
(* make_condition_func of dps_sub.py: func(result, size, state) per id.     *)
(* strategy_dynamic has already updated win_streak / loss_streak /          *)
(* last_result / last2_result for the current trade when func runs.         *)

dps_func1(result, size, st) == Ret(1, st)

\* Policy 2 with the test on the outcome inverted.
dps_func2_inverted(result, size, st) == Ret(IF result > 0 THEN 1 ELSE 2, st)

dps_func2(result, size, st) == Ret(IF result > 0 THEN 2 ELSE 1, st)

\* Policies 3, 4, 5: limit is the literal 2, 3, 4 of the branch.
dps_func3to5(limit, result, size, st) ==
    IF result > 0
    THEN LET s1 == [st EXCEPT !.win_streak = @ + 1]
         IN  Ret(IF s1.win_streak >= limit THEN 1 ELSE 2, s1)
    ELSE Ret(1, [st EXCEPT !.win_streak = 0])

\* Policy 6 with the test on the outcome inverted.
dps_func6_inverted(result, size, st) == Ret(IF result <= 0 THEN 1 ELSE 2, st)

dps_func6(result, size, st) == Ret(IF result <= 0 THEN 2 ELSE 1, st)

\* Policies 7, 8: limit is the literal 2, 3 of the branch.
dps_func7to8(limit, result, size, st) ==
    IF result > 0
    THEN Ret(1, [st EXCEPT !.loss_streak = 0])
    ELSE LET s1 == [st EXCEPT !.loss_streak = @ + 1]
         IN  Ret(IF s1.loss_streak >= limit THEN 2 ELSE 1, s1)

dps_func9(result, size, st) ==
    IF st.mode = "trading"
    THEN Ret(1, IF result > 0 THEN [st EXCEPT !.mode = "pause"] ELSE st)
    ELSE IF st.mode = "pause"
         THEN IF result <= 0
              THEN Ret(1, [st EXCEPT !.mode = "trading"])
              ELSE Ret(0, st)
         ELSE Ret(size, st)

\* Policies 10, 11, 12: limit is the literal 2, 3, 4 of the branch.
dps_func10to12(limit, result, size, st) ==
    IF st.mode = "trading"
    THEN IF result > 0
         THEN LET s1 == [st EXCEPT !.win_streak = @ + 1]
              IN  Ret(1, IF s1.win_streak >= limit
                         THEN [s1 EXCEPT !.mode = "pause"] ELSE s1)
         ELSE Ret(1, [st EXCEPT !.win_streak = 0])
    ELSE IF st.mode = "pause"
         THEN IF result <= 0
              THEN Ret(1, [st EXCEPT !.mode = "trading", !.win_streak = 0])
              ELSE Ret(0, st)
         ELSE Ret(size, st)

\* Policy 13 with the raised size written as 3.
dps_func13_size3(result, size, st) ==
    IF result > 0
    THEN LET s1 == [st EXCEPT !.win_streak = @ + 1]
         IN  Ret(IF s1.win_streak >= 2 THEN 3 ELSE size, s1)
    ELSE LET s1 == [st EXCEPT !.loss_streak = @ + 1]
         IN  Ret(IF s1.loss_streak >= 2 THEN 1 ELSE size, s1)

dps_func13(result, size, st) ==
    IF result > 0
    THEN LET s1 == [st EXCEPT !.win_streak = @ + 1]
         IN  Ret(IF s1.win_streak >= 2 THEN 2 ELSE size, s1)
    ELSE LET s1 == [st EXCEPT !.loss_streak = @ + 1]
         IN  Ret(IF s1.loss_streak >= 2 THEN 1 ELSE size, s1)

dps_func14(result, size, st) ==
    Ret(IF result > 0 /\ st.last2_result <= 0 THEN 2 ELSE 1, st)

dps_func15(result, size, st) ==
    IF st.mode = "trading"
    THEN IF result > 0
         THEN LET s1 == [st EXCEPT !.win_streak = @ + 1]
              IN  IF s1.win_streak >= 2
                  THEN Ret(2, [s1 EXCEPT !.mode = "pause"])
                  ELSE Ret(1, s1)
         ELSE Ret(1, [st EXCEPT !.win_streak = 0])
    ELSE IF st.mode = "pause"
         THEN IF result <= 0
              THEN Ret(1, [st EXCEPT !.mode = "trading", !.win_streak = 0])
              ELSE Ret(0, st)
         ELSE Ret(size, st)

dps_func16(result, size, st) ==
    IF st.mode = "trading"
    THEN IF result > 0
         THEN Ret(1, [st EXCEPT !.mode = "pause"])
         ELSE LET s1 == [st EXCEPT !.loss_streak = @ + 1]
              IN  Ret(IF s1.loss_streak >= 2 THEN 2 ELSE 1, s1)
    ELSE IF st.mode = "pause"
         THEN IF result <= 0
              THEN Ret(1, [st EXCEPT !.mode = "trading"])
              ELSE Ret(0, st)
         ELSE Ret(size, st)

dps_func17(result, size, st) ==
    Ret(IF result > 0 /\ st.last2_result <= 0 THEN 2 ELSE 1, st)

dps_func18(result, size, st) ==
    IF result > 0
    THEN LET s1 == [st EXCEPT !.win_streak = @ + 1]
         IN  Ret(IF s1.win_streak >= 3 THEN 3 ELSE size, s1)
    ELSE Ret(1, [st EXCEPT !.win_streak = 0])

\* Policy 19 counting the current outcome into the streak a second time, as
\* the branches of the other streak policies do.
dps_func19_recount(result, size, st) ==
    LET s1 == IF result > 0
              THEN [st EXCEPT !.win_streak = @ + 1]
              ELSE [st EXCEPT !.loss_streak = @ + 1]
    IN  Ret(IF s1.win_streak >= 2 THEN 2
            ELSE IF s1.loss_streak >= 2 THEN 3 ELSE 1, s1)

dps_func19(result, size, st) ==
    Ret(IF st.win_streak >= 2 THEN 2
        ELSE IF st.loss_streak >= 2 THEN 3 ELSE 1, st)

dps_func20(result, size, st) ==
    Ret(IF result > 0 THEN 1
        ELSE IF st.loss_streak >= 2 THEN 3
        ELSE IF result > 0 THEN 2 ELSE 1, st)

dps_make_condition_func(id, result, size, st) ==
    CASE id = 1 -> dps_func1(result, size, st)
      [] id = 2 -> dps_func2(result, size, st)
      [] id = 3 -> dps_func3to5(2, result, size, st)
      [] id = 4 -> dps_func3to5(3, result, size, st)
      [] id = 5 -> dps_func3to5(4, result, size, st)
      [] id = 6 -> dps_func6(result, size, st)
      [] id = 7 -> dps_func7to8(2, result, size, st)
      [] id = 8 -> dps_func7to8(3, result, size, st)
      [] id = 9 -> dps_func9(result, size, st)
      [] id = 10 -> dps_func10to12(2, result, size, st)
      [] id = 11 -> dps_func10to12(3, result, size, st)
      [] id = 12 -> dps_func10to12(4, result, size, st)
      [] id = 13 -> dps_func13(result, size, st)
      [] id = 14 -> dps_func14(result, size, st)
      [] id = 15 -> dps_func15(result, size, st)
      [] id = 16 -> dps_func16(result, size, st)
      [] id = 17 -> dps_func17(result, size, st)
      [] id = 18 -> dps_func18(result, size, st)
      [] id = 19 -> dps_func19(result, size, st)
      [] id = 20 -> dps_func20(result, size, st)
      [] OTHER -> Ret(1, st)

----------------------------------------------------------------------------
(* make_condition_func of MyTradingSimulator_sub.py.                        *)

mts_func2(result, size, st) == Ret(IF result > 0 THEN 2 ELSE 1, st)

\* strategy_id in [3, 4, 5], limit = strategy_id - 2
mts_func3to5(limit, result, size, st) ==
    IF result > 0
    THEN LET size1 == IF size = 1 THEN 2 ELSE size
             s1 == [st EXCEPT !.win_streak = @ + 1]
         IN  IF s1.win_streak >= limit
             THEN Ret(1, [s1 EXCEPT !.win_streak = 0])
             ELSE Ret(size1, s1)
    ELSE Ret(1, [st EXCEPT !.win_streak = 0])

\* strategy_id in [6, 7, 8], limit = strategy_id - 5
mts_func6to8(limit, result, size, st) ==
    IF result < 0
    THEN LET s1 == [st EXCEPT !.loss_streak = @ + 1]
         IN  Ret(IF s1.loss_streak >= limit THEN 2 ELSE size, s1)
    ELSE Ret(1, [st EXCEPT !.loss_streak = 0])

\* strategy_id in [9, 10, 11, 12], limit = strategy_id - 8
mts_func9to12(limit, result, size, st) ==
    IF st.mode = "trading"
    THEN IF result > 0
         THEN LET s1 == [st EXCEPT !.win_streak = @ + 1]
              IN  Ret(size, IF s1.win_streak >= limit
                            THEN [s1 EXCEPT !.mode = "waiting"] ELSE s1)
         ELSE Ret(size, st)
    ELSE IF result < 0
         THEN Ret(size, [st EXCEPT !.mode = "trading", !.win_streak = 0])
         ELSE Ret(size, st)

mts_func13(result, size, st) ==
    IF result > 0
    THEN LET s1 == [st EXCEPT !.win_streak = @ + 1]
         IN  Ret(IF s1.win_streak >= 2 THEN 2 ELSE size, s1)
    ELSE LET s1 == [st EXCEPT !.loss_streak = @ + 1, !.win_streak = 0]
         IN  IF s1.loss_streak >= 2
             THEN Ret(1, [s1 EXCEPT !.loss_streak = 0])
             ELSE Ret(size, s1)

mts_func14(result, size, st) ==
    LET s1 == IF result > 0
              THEN [st EXCEPT !.win_streak = @ + 1]
              ELSE [st EXCEPT !.loss_streak = @ + 1]
    IN  IF s1.win_streak >= 1 /\ s1.loss_streak >= 1
        THEN Ret(2, [s1 EXCEPT !.win_streak = 0, !.loss_streak = 0])
        ELSE Ret(1, s1)

mts_func15(result, size, st) ==
    IF st.paused
    THEN IF result < 0
         THEN Ret(2, [st EXCEPT !.paused = FALSE])
         ELSE Ret(0, st)
    ELSE IF result > 0
         THEN LET s1 == [st EXCEPT !.win_streak = @ + 1]
              IN  IF s1.win_streak >= 2
                  THEN Ret(0, [s1 EXCEPT !.paused = TRUE, !.win_streak = 0])
                  ELSE Ret(size, s1)
         ELSE Ret(1, [st EXCEPT !.win_streak = 0])

mts_func16(result, size, st) ==
    IF st.paused
    THEN IF result < 0
         THEN Ret(2, [st EXCEPT !.paused = FALSE])
         ELSE Ret(0, st)
    ELSE IF result < 0
         THEN LET s1 == [st EXCEPT !.loss_streak = @ + 1]
              IN  IF s1.loss_streak >= 2
                  THEN Ret(2, [s1 EXCEPT !.loss_streak = 0])
                  ELSE Ret(size, s1)
         ELSE Ret(0, [st EXCEPT !.loss_streak = 0, !.paused = TRUE])

mts_func17(result, size, st) ==
    Ret(IF result > 0 /\ st.last_result < 0 THEN 2 ELSE 1,
        [st EXCEPT !.last_result = result])

mts_func18(result, size, st) ==
    IF result > 0
    THEN LET s1 == [st EXCEPT !.win_streak = @ + 1]
         IN  Ret(IF s1.win_streak >= 3 THEN 3 ELSE size, s1)
    ELSE Ret(1, [st EXCEPT !.win_streak = 0])

mts_func19(result, size, st) ==
    IF result > 0
    THEN LET s1 == [st EXCEPT !.win_streak = @ + 1, !.loss_streak = 0]
         IN  Ret(IF s1.win_streak >= 2 THEN 2 ELSE 1, s1)
    ELSE LET s1 == [st EXCEPT !.loss_streak = @ + 1, !.win_streak = 0]
         IN  Ret(IF s1.loss_streak >= 2 THEN 3 ELSE 1, s1)

mts_func20(result, size, st) ==
    LET r == IF result > 0
             THEN Ret(IF st.last_size = 3 THEN 1 ELSE 2,
                      [st EXCEPT !.loss_streak = 0])
             ELSE LET s1 == [st EXCEPT !.loss_streak = @ + 1]
                  IN  Ret(IF s1.loss_streak >= 2 THEN 3 ELSE 1, s1)
    IN  Ret(r.size, [r.state EXCEPT !.last_size = r.size])

mts_make_condition_func(id, result, size, st) ==
    CASE id = 2 -> mts_func2(result, size, st)
      [] id \in {3, 4, 5} -> mts_func3to5(id - 2, result, size, st)
      [] id \in {6, 7, 8} -> mts_func6to8(id - 5, result, size, st)
      [] id \in {9, 10, 11, 12} -> mts_func9to12(id - 8, result, size, st)
      [] id = 13 -> mts_func13(result, size, st)
      [] id = 14 -> mts_func14(result, size, st)
      [] id = 15 -> mts_func15(result, size, st)
      [] id = 16 -> mts_func16(result, size, st)
      [] id = 17 -> mts_func17(result, size, st)
      [] id = 18 -> mts_func18(result, size, st)
      [] id = 19 -> mts_func19(result, size, st)
      [] id = 20 -> mts_func20(result, size, st)
      [] OTHER -> Ret(size, st)

make_condition_func(v, id, result, size, st) ==
    IF v = "dps_sub"
    THEN dps_make_condition_func(id, result, size, st)
    ELSE mts_make_condition_func(id, result, size, st)

----------------------------------------------------------------------------
(* The evaluation of one policy over one sequence *)

Sequences_upto(n) == UNION {[1..k -> Outcomes] : k \in 0..n}

Init ==
    /\ MainIdle
    /\ variant \in Variants
    /\ strategy_id \in PolicyIds
    /\ results \in Sequences_upto(MaxLen)
    /\ pc = "call"
    /\ i = 0
    /\ position_size = 1
    /\ state = FreshState
    /\ equity = <<>>
    /\ cumulative_equity = <<>>
    /\ total_profit = 0
    /\ drawdown = 0
    /\ sizes = <<>>
    /\ modes = <<>>
    /\ summary = [k \in PolicyIds |-> <<>>]
    /\ mc = 0
    /\ sim = 0
    /\ summary_final = <<>>
    /\ gen_model = "none"
    /\ gen_args = [hit_rate |-> 50, avg_win |-> 100, avg_loss |-> 100]
    /\ num_trades = Len(results)
    /\ regimes = [given |-> FALSE, list |-> <<>>]
    /\ phases = <<>>
    /\ trades_left = 0
    /\ phase_idx = 0

\* A variant of strategy_static that measures the drawdown on the raw
\* outcomes instead of on their running sum.
strategy_static_raw(res) ==
    [equity |-> res, total_profit |-> np_sum(res),
     drawdown |-> calculate_drawdown(res)]

\* strategy_static(results); only called on a non-empty array here.
strategy_static(res) ==
    LET eq == np_cumsum(res)
    IN  [equity |-> eq, total_profit |-> np_sum(res),
         drawdown |-> calculate_drawdown(eq)]

\* run_all_strategies, i == 1: profit, dd = strategy_static(base_results)
CallStatic ==
    /\ UNCHANGED mainVars
    /\ pc = "call"
    /\ strategy_id = 1
    /\ IF Len(results) = 0
       THEN /\ pc' = "raised"
            /\ UNCHANGED <<cumulative_equity, total_profit, drawdown>>
       ELSE LET r == strategy_static(results)
            IN  /\ cumulative_equity' = r.equity
                /\ total_profit' = r.total_profit
                /\ drawdown' = r.drawdown
                /\ pc' = "done"
    /\ sizes' = <<>>
    /\ modes' = <<>>
    /\ UNCHANGED <<variant, strategy_id, results, i, position_size, state,
                   equity, summary, mc>>
    /\ UNCHANGED <<genVars, aggVars>>

\* strategy_dynamic entered without rebuilding position_size and the state
\* dict, so that they survive from the evaluation before.
CallDynamic_keep_state ==
    /\ UNCHANGED mainVars
    /\ pc = "call"
    /\ strategy_id # 1
    /\ equity' = <<>>
    /\ i' = 0
    /\ sizes' = <<>>
    /\ modes' = <<>>
    /\ pc' = "loop"
    /\ UNCHANGED <<variant, strategy_id, results, position_size, state,
                   cumulative_equity, total_profit, drawdown, summary, mc>>
    /\ UNCHANGED <<genVars, aggVars>>

\* run_all_strategies, i > 1: strategy_dynamic(base_results, cond_func),
\* up to the head of its loop.
CallDynamic ==
    /\ UNCHANGED mainVars
    /\ pc = "call"
    /\ strategy_id # 1
    /\ equity' = <<>>
    /\ position_size' = 1
    /\ state' = FreshState
    /\ i' = 0
    /\ sizes' = <<>>
    /\ modes' = <<>>
    /\ pc' = "loop"
    /\ UNCHANGED <<variant, strategy_id, results, cumulative_equity,
                   total_profit, drawdown, summary, mc>>
    /\ UNCHANGED <<genVars, aggVars>>

\* The contribution of one trade with the pause test dropped.
Contribution_nopause(result, size, st) == result * size

\* The contribution of one trade with the pause recognised by the literal
\* mode name 'pause' only.
Contribution_pause_literal(result, size, st) ==
    IF st.mode = "pause" THEN 0 ELSE result * size

\* trade_result = results[i] * position_size, recorded only while trading.
Contribution(result, size, st) ==
    IF st.mode = "trading" THEN result * size ELSE 0

\* The streak update of strategy_dynamic, and in dps_sub the shift of the
\* last two outcomes.
UpdateStreaks(v, result, st) ==
    LET s1 == IF result > 0
              THEN [st EXCEPT !.win_streak = @ + 1, !.loss_streak = 0]
              ELSE [st EXCEPT !.loss_streak = @ + 1, !.win_streak = 0]
    IN  IF v = "dps_sub"
        THEN [s1 EXCEPT !.last2_result = s1.last_result, !.last_result = result]
        ELSE s1

\* A variant of the loop iteration that writes the scaled outcome back into
\* the sequence it reads.
DynStep_in_place ==
    /\ UNCHANGED mainVars
    /\ pc = "loop"
    /\ i < Len(results)
    /\ LET result == results[i + 1]
           s1 == UpdateStreaks(variant, result, state)
           r == make_condition_func(variant, strategy_id, result, position_size, s1)
       IN  /\ equity' = Append(equity, Contribution(result, position_size, state))
           /\ results' = [results EXCEPT ![i + 1] = result * position_size]
           /\ sizes' = Append(sizes, position_size)
           /\ modes' = Append(modes, state.mode)
           /\ position_size' = r.size
           /\ state' = r.state
    /\ i' = i + 1
    /\ UNCHANGED <<variant, strategy_id, pc, cumulative_equity,
                   total_profit, drawdown, summary, mc>>
    /\ UNCHANGED <<genVars, aggVars>>

\* One iteration of the loop of strategy_dynamic.
DynStep ==
    /\ UNCHANGED mainVars
    /\ pc = "loop"
    /\ i < Len(results)
    /\ LET result == results[i + 1]
           s1 == UpdateStreaks(variant, result, state)
           r == make_condition_func(variant, strategy_id, result, position_size, s1)
       IN  /\ equity' = Append(equity, Contribution(result, position_size, state))
           /\ sizes' = Append(sizes, position_size)
           /\ modes' = Append(modes, state.mode)
           /\ position_size' = r.size
           /\ state' = r.state
    /\ i' = i + 1
    /\ UNCHANGED <<variant, strategy_id, results, pc, cumulative_equity,
                   total_profit, drawdown, summary, mc>>
    /\ UNCHANGED <<genVars, aggVars>>

\* After the loop: cumulative_equity = np.cumsum(equity);
\* return np.sum(equity), calculate_drawdown(cumulative_equity).
\* np.min raises ValueError on an empty array.
DynReturn ==
    /\ UNCHANGED mainVars
    /\ pc = "loop"
    /\ i = Len(results)
    /\ cumulative_equity' = np_cumsum(equity)
    /\ IF Len(equity) = 0
       THEN /\ pc' = "raised"
            /\ UNCHANGED <<total_profit, drawdown>>
       ELSE /\ total_profit' = np_sum(equity)
            /\ drawdown' = calculate_drawdown(np_cumsum(equity))
            /\ pc' = "done"
    /\ UNCHANGED <<variant, strategy_id, results, i, position_size, state,
                   equity, sizes, modes, summary, mc>>
    /\ UNCHANGED <<genVars, aggVars>>

Next ==
    \/ CallStatic
    \/ CallDynamic
    \/ DynStep
    \/ DynReturn

Spec == Init /\ [][Next]_vars

----------------------------------------------------------------------------
(* The inner Monte Carlo loop of run_all_strategies *)

RunOutcomes == {100, -100}

\* All orders np.random.shuffle can leave the buffer in.
Shuffles(s) ==
    LET n == Len(s)
        bij == {f \in [1..n -> 1..n] : \A a, b \in 1..n : f[a] = f[b] => a = b}
    IN  {[j \in 1..n |-> s[f[j]]] : f \in bij}

\* A base sequence has been generated and the inner loop is about to start.
RunInit ==
    /\ MainIdle
    /\ variant \in Variants
    /\ results \in UNION {[1..k -> RunOutcomes] : k \in 0..RunLen}
    /\ strategy_id = 1
    /\ pc = "shuffle"
    /\ i = 0
    /\ position_size = 1
    /\ state = FreshState
    /\ equity = <<>>
    /\ cumulative_equity = <<>>
    /\ total_profit = 0
    /\ drawdown = 0
    /\ sizes = <<>>
    /\ modes = <<>>
    /\ summary = [k \in PolicyIds |-> <<>>]
    /\ mc = 0
    /\ sim = NumSimulations
    /\ summary_final = <<>>
    /\ gen_model = "none"
    /\ gen_args = [hit_rate |-> 50, avg_win |-> 100, avg_loss |-> 100]
    /\ num_trades = Len(results)
    /\ regimes = [given |-> FALSE, list |-> <<>>]
    /\ phases = <<>>
    /\ trades_left = 0
    /\ phase_idx = 0

\* A variant of the shuffle that redraws every position from the outcomes
\* in the buffer, with replacement.
Shuffle_resample ==
    /\ UNCHANGED mainVars
    /\ pc = "shuffle"
    /\ results' \in [1..Len(results) -> {results[k] : k \in 1..Len(results)}]
    /\ mc' = mc + 1
    /\ strategy_id' = 1
    /\ pc' = "call"
    /\ UNCHANGED <<variant, i, position_size, state, equity,
                   cumulative_equity, total_profit, drawdown, sizes, modes,
                   summary>>
    /\ UNCHANGED <<genVars, aggVars>>

\* np.random.shuffle(base_results), then the policy loop starts at i = 1.
Shuffle ==
    /\ UNCHANGED mainVars
    /\ pc = "shuffle"
    /\ results' \in Shuffles(results)
    /\ mc' = mc + 1
    /\ strategy_id' = 1
    /\ pc' = "call"
    /\ UNCHANGED <<variant, i, position_size, state, equity,
                   cumulative_equity, total_profit, drawdown, sizes, modes,
                   summary>>
    /\ UNCHANGED <<genVars, aggVars>>

\* A variant of the loop step that leaves out the append for the last
\* policy of a shuffle.
AppendSample_skip_last ==
    /\ UNCHANGED mainVars
    /\ pc = "done"
    /\ summary' = IF strategy_id < 20
                  THEN [summary EXCEPT
                           ![strategy_id] = Append(@, <<total_profit, drawdown>>)]
                  ELSE summary
    /\ IF strategy_id < 20
       THEN /\ strategy_id' = strategy_id + 1
            /\ pc' = "call"
       ELSE /\ strategy_id' = strategy_id
            /\ pc' = IF mc < NumMcShuffles THEN "shuffle"
                     ELSE IF sim < NumSimulations THEN "simulate"
                     ELSE "finished"
    /\ UNCHANGED <<variant, results, i, position_size, state, equity,
                   cumulative_equity, total_profit, drawdown, sizes, modes, mc>>
    /\ UNCHANGED <<genVars, aggVars>>

\* summary[i].append((profit, dd)) and the step of the three for loops.
AppendSample ==
    /\ UNCHANGED mainVars
    /\ pc = "done"
    /\ summary' = [summary EXCEPT
                      ![strategy_id] = Append(@, <<total_profit, drawdown>>)]
    /\ IF strategy_id < 20
       THEN /\ strategy_id' = strategy_id + 1
            /\ pc' = "call"
       ELSE /\ strategy_id' = strategy_id
            /\ pc' = IF mc < NumMcShuffles THEN "shuffle"
                     ELSE IF sim < NumSimulations THEN "simulate"
                     ELSE "finished"
    /\ UNCHANGED <<variant, results, i, position_size, state, equity,
                   cumulative_equity, total_profit, drawdown, sizes, modes, mc>>
    /\ UNCHANGED <<genVars, aggVars>>

RunNext ==
    \/ Shuffle
    \/ CallStatic
    \/ CallDynamic
    \/ DynStep
    \/ DynReturn
    \/ AppendSample

SpecRun == RunInit /\ [][RunNext]_vars

----------------------------------------------------------------------------
(* run_all_strategies as a whole: the outer loop over num_simulations, the *)
(* statistics per policy and the ranking.  np.mean and the two ratios are  *)
(* exact fractions num / den (den > 0); float('inf') and the other         *)
(* non-finite floats are kinds of their own.                               *)

\* descriptions of dps_sub.run_all_strategies.
dps_descriptions ==
    <<
       "Constant position size 1",
       "Increase to 2 after win, reset to 1 after loss",
       "Increase to 2 after win, reset to 1 after loss or 2 wins",
       "Increase to 2 after win, reset to 1 after loss or 3 wins",
       "Increase to 2 after win, reset to 1 after loss or 4 wins",
       "Increase to 2 after loss, reset to 1 after win",
       "Increase to 2 after 2 losses, reset to 1 after win",
       "Increase to 2 after 3 losses, reset to 1 after win",
       "Pause after 1 win until next loss",
       "Pause after 2 wins until next loss",
       "Pause after 3 wins until next loss",
       "Pause after 4 wins until next loss",
       "Increase to 2 after 2 wins, reset to 1 after 2 losses",
       "Increase to 2 after 1 win and 1 loss, else 1",
       "Pause after 2 consecutive wins until 1 loss, then increase to 2",
       "Increase to 2 after 2 losses, pause after 1 win until next loss",
       "Increase to 2 after 1 win only if preceded by 1 loss, else 1",
       "Increase to 3 after 3 wins, reset to 1 after 1 loss",
       "Increase to 2 after 2 wins, to 3 after 2 losses, else 1",
       "Increase to 2 after 1 win, to 3 after 2 losses, reset to 1 after win"
    >>

\* descriptions of MyTradingSimulator_sub.run_all_strategies (umlauts and
\* sharp s transliterated).
mts_descriptions ==
    <<
       "Konstante Positionsgroesse 1",
       "Nach Gewinn auf 2 erhoehen, nach Verlust zurueck auf 1",
       "Nach Gewinn auf 2 erhoehen, nach Verlust oder 2 Gewinnen zurueck auf 1",
       "Nach Gewinn auf 2 erhoehen, nach Verlust oder 3 Gewinnen zurueck auf 1",
       "Nach Gewinn auf 2 erhoehen, nach Verlust oder 4 Gewinnen zurueck auf 1",
       "Nach Verlust auf 2 erhoehen, nach Gewinn zurueck auf 1",
       "Nach 2 Verlusten auf 2 erhoehen, nach Gewinn zurueck auf 1",
       "Nach 3 Verlusten auf 2 erhoehen, nach Gewinn zurueck auf 1",
       "Nach 1 Gewinn pausieren bis zum naechsten Verlust",
       "Nach 2 Gewinnen pausieren bis zum naechsten Verlust",
       "Nach 3 Gewinnen pausieren bis zum naechsten Verlust",
       "Nach 4 Gewinnen pausieren bis zum naechsten Verlust",
       "Nach 2 Gewinnen auf 2 erhoehen, nach 2 Verlusten zurueck auf 1",
       "Nach 1 Gewinn und 1 Verlust auf 2 erhoehen, sonst auf 1",
       "Nach 2 Gewinnen in Folge pausieren bis 1 Verlust, dann auf 2 erhoehen",
       "Nach 2 Verlusten auf 2 erhoehen, nach 1 Gewinn pausieren bis zum naechsten Verlust",
       "Nach 1 Gewinn auf 2 erhoehen, aber nur wenn davor 1 Verlust war, sonst auf 1",
       "Nach 3 Gewinnen auf 3 erhoehen, nach 1 Verlust zurueck auf 1",
       "Nach 2 Gewinnen auf 2 erhoehen, nach 2 Verlusten auf 3 erhoehen, sonst auf 1",
       "Nach 1 Gewinn auf 2 erhoehen, nach 2 Verlusten auf 3 erhoehen, nach Gewinn zurueck auf 1"
    >>

\* The num_trades arguments of the aggregated runs.
AggTradeCounts == {1, 2}

descriptions(v) == IF v = "dps_sub" THEN dps_descriptions ELSE mts_descriptions

Abs(x) == IF x < 0 THEN -x ELSE x

\* A finite float, as the fraction num / den.
Fin(n, d) == [kind |-> "fin", num |-> n, den |-> d]

\* float('inf').
Inf == [kind |-> "inf", num |-> 1, den |-> 1]

\* -inf and nan, which numpy's division by zero yields for a negative and
\* for a zero dividend.
NegInf == [kind |-> "-inf", num |-> -1, den |-> 1]

NaN == [kind |-> "nan", num |-> 0, den |-> 1]

\* x < y on floats; every comparison with nan is false.
FloatLess(x, y) ==
    CASE x.kind = "nan" \/ y.kind = "nan" -> FALSE
      [] x.kind = "inf" -> FALSE
      [] x.kind = "-inf" -> y.kind # "-inf"
      [] x.kind = "fin" ->
            \/ y.kind = "inf"
            \/ y.kind = "fin" /\ x.num * y.den < y.num * x.den

\* x == y on floats.
FloatEq(x, y) ==
    CASE x.kind = "nan" \/ y.kind = "nan" -> FALSE
      [] x.kind = "fin" /\ y.kind = "fin" -> x.num * y.den = y.num * x.den
      [] OTHER -> x.kind = y.kind

\* np.mean of a non-empty list of numbers.
np_mean(s) == Fin(np_sum(s), Len(s))

RECURSIVE np_min_list(_)
\* np.min of a non-empty list.
np_min_list(s) ==
    IF Len(s) = 1 THEN Head(s) ELSE Min2(Head(s), np_min_list(Tail(s)))

RECURSIVE np_max_list(_)
\* np.max of a non-empty list.
np_max_list(s) ==
    IF Len(s) = 1 THEN Head(s) ELSE Max2(Head(s), np_max_list(Tail(s)))

\* A variant of the ratio that divides without looking at the divisor, as
\* numpy floats do: x / 0 is inf, -inf or nan.
ProfitRatio_unguarded(avg_profit, d) ==
    IF d.num # 0
    THEN Fin(avg_profit.num * d.den, avg_profit.den * Abs(d.num))
    ELSE IF avg_profit.num > 0 THEN Inf
         ELSE IF avg_profit.num < 0 THEN NegInf ELSE NaN

\* avg_profit / abs(d) if d != 0 else float('inf').
ProfitRatio(avg_profit, d) ==
    IF d.num # 0
    THEN Fin(avg_profit.num * d.den, avg_profit.den * Abs(d.num))
    ELSE Inf

\* The row summary_final.append(...) builds for policy id from its samples.
StatRow(v, id, samples, n) ==
    LET profits == [k \in 1..Len(samples) |-> samples[k][1]]
        drawdowns == [k \in 1..Len(samples) |-> samples[k][2]]
        avg_profit == np_mean(profits)
        avg_drawdown == np_mean(drawdowns)
        max_dd == np_max_list(drawdowns)
    IN  [description |-> descriptions(v)[id],
         avg_profit |-> avg_profit,
         avg_drawdown |-> avg_drawdown,
         ratio |-> ProfitRatio(avg_profit, avg_drawdown),
         min_profit |-> np_min_list(profits),
         max_profit |-> np_max_list(profits),
         min_dd |-> np_min_list(drawdowns),
         max_dd |-> max_dd,
         avg_per_trade |-> Fin(avg_profit.num, avg_profit.den * n),
         ratio_max_dd |-> ProfitRatio(avg_profit, Fin(max_dd, 1))]

\* row[9] >= 0 and row[9] < 0.
NonNegative(row) ==
    row.ratio_max_dd.kind # "nan" /\ ~FloatLess(row.ratio_max_dd, Fin(0, 1))

Negative(row) == FloatLess(row.ratio_max_dd, Fin(0, 1))

RECURSIVE InsertRow(_, _, _)
\* Stable insertion of row x into the sorted list s: before the first row
\* that must come after it (a smaller key when reverse, a larger one else).
InsertRow(s, x, reverse) ==
    IF s = <<>> THEN <<x>>
    ELSE IF (IF reverse
             THEN FloatLess(Head(s).ratio_max_dd, x.ratio_max_dd)
             ELSE FloatLess(x.ratio_max_dd, Head(s).ratio_max_dd))
         THEN <<x>> \o s
         ELSE <<Head(s)>> \o InsertRow(Tail(s), x, reverse)

RECURSIVE SortRows(_, _)
\* list.sort(key=lambda x: x[9], reverse=reverse): stable in both directions.
SortRows(rows, reverse) ==
    IF rows = <<>> THEN <<>>
    ELSE InsertRow(SortRows(SubSeq(rows, 1, Len(rows) - 1), reverse),
                   rows[Len(rows)], reverse)

\* A variant of the ranking that keeps only strictly positive ratios in the
\* first partition.
Ranking_strict_positive(v, rows) ==
    LET StrictlyPositive(row) == FloatLess(Fin(0, 1), row.ratio_max_dd)
    IN  SortRows(SelectSeq(rows, StrictlyPositive), TRUE) \o
        SortRows(SelectSeq(rows, Negative), v = "dps_sub")

\* A variant of the ranking that sorts the first partition ascending.
Ranking_ascending(v, rows) ==
    SortRows(SelectSeq(rows, NonNegative), FALSE) \o
    SortRows(SelectSeq(rows, Negative), v = "dps_sub")

\* positive + negative: the non-negative rows sorted descending, then the
\* negative rows, sorted descending in dps_sub and ascending in
\* MyTradingSimulator_sub.
Ranking(v, rows) ==
    SortRows(SelectSeq(rows, NonNegative), TRUE) \o
    SortRows(SelectSeq(rows, Negative), v = "dps_sub")

\* The state at the call of run_all_strategies.
AggInit ==
    /\ MainIdle
    /\ variant \in Variants
    /\ num_trades \in AggTradeCounts
    /\ pc = "simulate"
    /\ sim = 0
    /\ mc = 0
    /\ results = <<>>
    /\ strategy_id = 1
    /\ i = 0
    /\ position_size = 1
    /\ state = FreshState
    /\ equity = <<>>
    /\ cumulative_equity = <<>>
    /\ total_profit = 0
    /\ drawdown = 0
    /\ sizes = <<>>
    /\ modes = <<>>
    /\ summary = [k \in PolicyIds |-> <<>>]
    /\ summary_final = <<>>
    /\ gen_model = "none"
    /\ gen_args = [hit_rate |-> 50, avg_win |-> 100, avg_loss |-> 100]
    /\ regimes = [given |-> FALSE, list |-> <<>>]
    /\ phases = <<>>
    /\ trades_left = 0
    /\ phase_idx = 0

\* One pass of 'for _ in range(num_simulations)' up to the inner loop:
\* base_results = simulate_trades_*(num_trades, ...), any sequence of
\* num_trades outcomes.
Simulate ==
    /\ UNCHANGED mainVars
    /\ pc = "simulate"
    /\ sim < NumSimulations
    /\ sim' = sim + 1
    /\ results' \in [1..num_trades -> RunOutcomes]
    /\ mc' = 0
    /\ pc' = "shuffle"
    /\ UNCHANGED <<variant, strategy_id, i, position_size, state, equity,
                   cumulative_equity, total_profit, drawdown, sizes, modes,
                   summary, summary_final, genVars>>

\* After the loops: the statistics row of every policy, the partition, the
\* two sorts and the return.
Rank ==
    /\ UNCHANGED mainVars
    /\ pc = "finished"
    /\ summary_final' =
           Ranking(variant,
                   [id \in PolicyIds |->
                       StatRow(variant, id, summary[id], num_trades)])
    /\ pc' = "returned"
    /\ UNCHANGED <<variant, strategy_id, results, i, position_size, state,
                   equity, cumulative_equity, total_profit, drawdown, sizes,
                   modes, summary, mc, sim, genVars>>

AggNext ==
    \/ Simulate
    \/ Shuffle
    \/ CallStatic
    \/ CallDynamic
    \/ DynStep
    \/ DynReturn
    \/ AppendSample
    \/ Rank

SpecAgg == AggInit /\ [][AggNext]_vars

----------------------------------------------------------------------------
(* The trade generators simulate_trades_dynamic, simulate_trades_markov,   *)
(* simulate_trades_markov2 and simulate_trades_regime_switch.  Every       *)
(* random draw is a nondeterministic choice among the outcomes of nonzero  *)
(* probability; probabilities are in percent, amounts are integers.        *)

GenModels == {"dynamic", "markov", "markov2", "regime"}

\* The generators each simulator file defines.
GenModelsOf(v) ==
    IF v = "dps_sub" THEN GenModels ELSE {"dynamic", "markov"}

\* The hit_rate, avg_win and avg_loss arguments tried.
GenArgs == [hit_rate : {50, 90}, avg_win : {100}, avg_loss : {100}]

\* The regimes argument: None, or a list of regimes whose lengths may be
\* zero or negative.
RegimeArgs ==
    {[given |-> FALSE, list |-> <<>>]} \cup
    {[given |-> TRUE, list |-> l] :
        l \in UNION {[1..k -> [length : -1..MaxRegimeLen, hit_rate : {50},
                               avg_win : {100}, avg_loss : {100}]]
                     : k \in 0..MaxRegimes}}

\* The outcomes np.random.choice([avg_win, -avg_loss], p=[p, 1 - p]) and
\* the test np.random.rand() < p can produce.
Choice(avg_win, avg_loss, p) ==
    {avg_win : x \in {y \in {1} : p > 0}} \cup
    {-avg_loss : x \in {y \in {1} : p < 100}}

\* np.random.choice(..., size=l): l independent draws.
ChoiceSeq(l, avg_win, avg_loss, p) == [1..l -> Choice(avg_win, avg_loss, p)]

\* A variant of the phase list whose last phase takes what the first two
\* leave over.
DynamicPhases_remainder(n, a) ==
    << [length |-> (n * 2) \div 10, hit_rate |-> Min2(a.hit_rate + 20, 100),
        avg_win |-> (a.avg_win * 11) \div 10, avg_loss |-> (a.avg_loss * 9) \div 10],
       [length |-> (n * 2) \div 10, hit_rate |-> Max2(a.hit_rate - 30, 5),
        avg_win |-> (a.avg_win * 9) \div 10, avg_loss |-> (a.avg_loss * 11) \div 10],
       [length |-> n - 2 * ((n * 2) \div 10), hit_rate |-> a.hit_rate,
        avg_win |-> a.avg_win, avg_loss |-> a.avg_loss] >>

\* The phases list of simulate_trades_dynamic; int(n * 0.2) and int(n * 0.4)
\* truncate the product.
DynamicPhases(n, a) ==
    << [length |-> (n * 2) \div 10, hit_rate |-> Min2(a.hit_rate + 20, 100),
        avg_win |-> (a.avg_win * 11) \div 10, avg_loss |-> (a.avg_loss * 9) \div 10],
       [length |-> (n * 2) \div 10, hit_rate |-> Max2(a.hit_rate - 30, 5),
        avg_win |-> (a.avg_win * 9) \div 10, avg_loss |-> (a.avg_loss * 11) \div 10],
       [length |-> n - ((n * 4) \div 10), hit_rate |-> a.hit_rate,
        avg_win |-> a.avg_win, avg_loss |-> a.avg_loss] >>

\* The default regimes of simulate_trades_regime_switch.
DefaultRegimes(n) ==
    << [length |-> (n * 3) \div 10, hit_rate |-> 90, avg_win |-> 200, avg_loss |-> 100],
       [length |-> (n * 2) \div 10, hit_rate |-> 50, avg_win |-> 100, avg_loss |-> 100],
       [length |-> n - ((n * 5) \div 10), hit_rate |-> 20, avg_win |-> 100, avg_loss |-> 200] >>

\* The state at the call of a generator.
GenInit ==
    /\ MainIdle
    /\ variant \in Variants
    /\ gen_model \in GenModelsOf(variant)
    /\ gen_args \in GenArgs
    /\ regimes \in IF gen_model = "regime" THEN RegimeArgs
                   ELSE {[given |-> FALSE, list |-> <<>>]}
    /\ num_trades \in IF gen_model = "regime" THEN 1..RegimeTrades
                      ELSE 1..GenTrades
    /\ pc = "gen_call"
    /\ results = <<>>
    /\ phases = <<>>
    /\ trades_left = 0
    /\ phase_idx = 0
    /\ strategy_id = 1
    /\ i = 0
    /\ position_size = 1
    /\ state = FreshState
    /\ equity = <<>>
    /\ cumulative_equity = <<>>
    /\ total_profit = 0
    /\ drawdown = 0
    /\ sizes = <<>>
    /\ modes = <<>>
    /\ summary = [k \in PolicyIds |-> <<>>]
    /\ mc = 0
    /\ sim = 0
    /\ summary_final = <<>>

\* What the generators leave alone.
evalVars == <<variant, strategy_id, i, position_size, state, equity,
              cumulative_equity, total_profit, drawdown, sizes, modes,
              summary, mc, sim, summary_final>>

\* Entry of simulate_trades_dynamic / simulate_trades_regime_switch: the
\* phase list, results = [], trades_left = num_trades.
GenPhasedStart ==
    /\ UNCHANGED mainVars
    /\ pc = "gen_call"
    /\ gen_model \in {"dynamic", "regime"}
    /\ phases' = IF gen_model = "dynamic" THEN DynamicPhases(num_trades, gen_args)
                 ELSE IF regimes.given THEN regimes.list
                 ELSE DefaultRegimes(num_trades)
    /\ results' = <<>>
    /\ trades_left' = num_trades
    /\ phase_idx' = 1
    /\ pc' = "gen_loop"
    /\ UNCHANGED <<gen_model, gen_args, num_trades, regimes, evalVars>>

\* One iteration of 'for phase in phases': l = min(length, trades_left);
\* skip if l <= 0; else extend, decrement, and break when nothing is left.
GenPhase ==
    /\ UNCHANGED mainVars
    /\ pc = "gen_loop"
    /\ phase_idx <= Len(phases)
    /\ LET phase == phases[phase_idx]
           l == Min2(phase.length, trades_left)
       IN  IF l <= 0
           THEN /\ phase_idx' = phase_idx + 1
                /\ UNCHANGED <<results, trades_left, pc>>
           ELSE /\ \E phase_results \in ChoiceSeq(l, phase.avg_win,
                                                  phase.avg_loss, phase.hit_rate) :
                       results' = results \o phase_results
                /\ trades_left' = trades_left - l
                /\ IF trades_left - l <= 0
                   THEN /\ pc' = "gen_after"
                        /\ phase_idx' = phase_idx
                   ELSE /\ pc' = "gen_loop"
                        /\ phase_idx' = phase_idx + 1
    /\ UNCHANGED <<gen_model, gen_args, num_trades, regimes, phases, evalVars>>

\* The for loop runs out of phases.
GenPhasesExhausted ==
    /\ UNCHANGED mainVars
    /\ pc = "gen_loop"
    /\ phase_idx > Len(phases)
    /\ pc' = "gen_after"
    /\ UNCHANGED <<results, genVars, evalVars>>

\* A variant of the return that never backfills.
GenPhasedReturn_no_backfill ==
    /\ UNCHANGED mainVars
    /\ pc = "gen_after"
    /\ results' = results
    /\ pc' = "gen_done"
    /\ UNCHANGED <<genVars, evalVars>>

\* A variant of the return that backfills in every generator.
GenPhasedReturn_backfill_all ==
    /\ UNCHANGED mainVars
    /\ pc = "gen_after"
    /\ IF trades_left > 0
       THEN \E fill \in ChoiceSeq(trades_left, gen_args.avg_win,
                                  gen_args.avg_loss, gen_args.hit_rate) :
                results' = results \o fill
       ELSE results' = results
    /\ pc' = "gen_done"
    /\ UNCHANGED <<genVars, evalVars>>

\* After the loop: simulate_trades_dynamic backfills trades_left draws with
\* the base parameters; simulate_trades_regime_switch returns what it has.
GenPhasedReturn ==
    /\ UNCHANGED mainVars
    /\ pc = "gen_after"
    /\ IF gen_model = "dynamic" /\ trades_left > 0
       THEN \E fill \in ChoiceSeq(trades_left, gen_args.avg_win,
                                  gen_args.avg_loss, gen_args.hit_rate) :
                results' = results \o fill
       ELSE results' = results
    /\ pc' = "gen_done"
    /\ UNCHANGED <<genVars, evalVars>>

\* Entry of simulate_trades_markov (one seed outcome, loop from 1) and of
\* simulate_trades_markov2 (two seed outcomes, loop from 2).
GenMarkovStart ==
    /\ UNCHANGED mainVars
    /\ pc = "gen_call"
    /\ gen_model \in {"markov", "markov2"}
    /\ LET seed == IF gen_model = "markov" THEN 1 ELSE 2
       IN  /\ \E first \in ChoiceSeq(seed, gen_args.avg_win, gen_args.avg_loss,
                                     gen_args.hit_rate) : results' = first
           /\ phase_idx' = seed
    /\ pc' = "gen_markov"
    /\ UNCHANGED <<gen_model, gen_args, num_trades, regimes, phases,
                   trades_left, evalVars>>

\* The transition probability (percent) of the Markov generators given the
\* outcomes so far: defaults 0.7 / 0.5 and 0.8 / 0.6 / 0.5 / 0.3.
MarkovP(model, res) ==
    LET n == Len(res)
        last1 == res[n] > 0
        last2 == res[n - 1] > 0
    IN  IF model = "markov"
        THEN IF last1 THEN 70 ELSE 50
        ELSE IF last2 /\ last1 THEN 80
             ELSE IF last2 /\ ~last1 THEN 60
             ELSE IF ~last2 /\ last1 THEN 50
             ELSE 30

\* One iteration of 'for _ in range(seed, num_trades)'.
GenMarkovStep ==
    /\ UNCHANGED mainVars
    /\ pc = "gen_markov"
    /\ phase_idx < num_trades
    /\ \E x \in Choice(gen_args.avg_win, gen_args.avg_loss,
                       MarkovP(gen_model, results)) :
           results' = Append(results, x)
    /\ phase_idx' = phase_idx + 1
    /\ UNCHANGED <<pc, gen_model, gen_args, num_trades, regimes, phases,
                   trades_left, evalVars>>

\* The range is exhausted: return np.array(results).
GenMarkovReturn ==
    /\ UNCHANGED mainVars
    /\ pc = "gen_markov"
    /\ phase_idx >= num_trades
    /\ pc' = "gen_done"
    /\ UNCHANGED <<results, genVars, evalVars>>

GenNext ==
    \/ GenPhasedStart
    \/ GenPhase
    \/ GenPhasesExhausted
    \/ GenPhasedReturn
    \/ GenMarkovStart
    \/ GenMarkovStep
    \/ GenMarkovReturn

SpecGen == GenInit /\ [][GenNext]_vars

----------------------------------------------------------------------------
(* Reference notions used by the properties, defined on the input sequence *)

IsWin(j) == results[j] > 0

IsLoss(j) == ~(results[j] > 0)

RECURSIVE WinRun(_)
\* Number of consecutive wins ending at trade j.
WinRun(j) == IF j = 0 \/ IsLoss(j) THEN 0 ELSE 1 + WinRun(j - 1)

RECURSIVE LossRun(_)
\* Number of consecutive losses ending at trade j.
LossRun(j) == IF j = 0 \/ IsWin(j) THEN 0 ELSE 1 + LossRun(j - 1)

\* The evaluation has consumed at least one trade.
Evaluating == pc \in {"loop", "done"} /\ strategy_id # 1 /\ i >= 1

\* Paused in either encoding: the mode of the state dict, or the 'paused'
\* key of MyTradingSimulator_sub (policies 15, 16).
IsPaused(st) == st.mode # "trading" \/ st.paused

\* Contribution of trade j as section 4.3 defines it.
RefContribution(j) ==
    IF strategy_id = 1 THEN results[j] * 1
    ELSE IF modes[j] = "trading" THEN results[j] * sizes[j] ELSE 0

RECURSIVE RefEquity(_)
RefEquity(j) == IF j = 0 THEN 0 ELSE RefEquity(j - 1) + RefContribution(j)

RefPeak(j) ==
    CHOOSE m \in {RefEquity(k) : k \in 1..j} :
        \A k \in 1..j : RefEquity(k) <= m

RefMaxDrawdown ==
    LET n == Len(results)
        dds == {RefEquity(j) - RefPeak(j) : j \in 1..n}
    IN  CHOOSE d \in dds : \A e \in dds : d <= e

ScenarioSeq == <<100, -100, 100, -100>>

----------------------------------------------------------------------------
\* C1: the returned sample is (sum of contributions, min over i of
\* equity[i] - peak[i]), where the contribution of trade i is
\* outcome[i] * position_size[i] while Trading and 0 while Paused;
\* [100,-100,100,-100] under policy 1 gives total_profit 0, max_drawdown -100.
C1_SampleIsEquityAccounting ==
    pc = "done" =>
        /\ strategy_id # 1 =>
              /\ Len(equity) = Len(results)
              /\ \A j \in 1..Len(results) : equity[j] = RefContribution(j)
        /\ total_profit = RefEquity(Len(results))
        /\ \A j \in 1..Len(results) : cumulative_equity[j] = RefEquity(j)
        /\ drawdown = RefMaxDrawdown
        /\ (strategy_id = 1 /\ results = ScenarioSeq) =>
              (total_profit = 0 /\ drawdown = -100)

C1_Witness ==
    /\ pc = "done"
    /\ strategy_id = 16
    /\ \E j \in 1..Len(modes) : modes[j] # "trading" /\ sizes[j] > 0
    /\ \E j \in 1..Len(sizes) : modes[j] = "trading" /\ sizes[j] = 2
    /\ drawdown < 0

\* C2: max_drawdown <= 0, and it is 0 exactly when the cumulative equity
\* curve never decreases.
C2_DrawdownSign ==
    pc = "done" =>
        /\ drawdown <= 0
        /\ (drawdown = 0) <=>
              (\A j \in 1..(Len(cumulative_equity) - 1) :
                   cumulative_equity[j] <= cumulative_equity[j + 1])

C2_Witness ==
    /\ pc = "done"
    /\ Len(cumulative_equity) >= 3
    /\ cumulative_equity[1] < 0
    /\ cumulative_equity[Len(cumulative_equity)] > cumulative_equity[1]
    /\ drawdown = 0

RECURSIVE SeqPrefixSum(_, _)
SeqPrefixSum(s, j) == IF j = 0 THEN 0 ELSE SeqPrefixSum(s, j - 1) + s[j]

\* C3: policy 1's sample has total_profit = sum(sequence) and max_drawdown =
\* the drawdown of the unscaled sequence's running sum.
C3_Policy1IsUnscaled ==
    (pc = "done" /\ strategy_id = 1) =>
        /\ total_profit = SeqPrefixSum(results, Len(results))
        /\ \E j \in 1..Len(results) : \E k \in 1..j :
              drawdown = SeqPrefixSum(results, j) - SeqPrefixSum(results, k)
        /\ \A j \in 1..Len(results) : \A k \in 1..j :
              drawdown <= SeqPrefixSum(results, j) - SeqPrefixSum(results, k)

C3_Witness ==
    /\ pc = "done"
    /\ strategy_id = 1
    /\ Len(results) >= 4
    /\ total_profit > 0
    /\ drawdown < -100

\* C4: under policy 2 the first trade is taken at size 1 and the trade after
\* outcome i at size 2 if i was a win, 1 if it was a loss; [100,-100,100,-100]
\* yields contributions [100,-200,100,-200], total_profit -200, drawdown -300.
C4_Policy2Sizes ==
    (strategy_id = 2 /\ pc \in {"loop", "done"}) =>
        /\ i = 0 => position_size = 1
        /\ i >= 1 => position_size = (IF IsWin(i) THEN 2 ELSE 1)
        /\ \A j \in 1..Len(sizes) :
              sizes[j] = (IF j > 1 /\ IsWin(j - 1) THEN 2 ELSE 1)
        /\ (pc = "done" /\ results = ScenarioSeq) =>
              /\ equity = <<100, -200, 100, -200>>
              /\ total_profit = -200
              /\ drawdown = -300

C4_Witness ==
    /\ strategy_id = 2
    /\ pc = "done"
    /\ results = ScenarioSeq
    /\ sizes = <<1, 2, 1, 2>>

\* C5: under policy k in {3,4,5} the next size is 2 after a win and 1 after a
\* loss or once the run of consecutive wins has reached 2 / 3 / 4.
C5_Policy3to5Sizes ==
    (strategy_id \in {3, 4, 5} /\ Evaluating) =>
        position_size =
            (IF IsWin(i) /\ WinRun(i) < strategy_id - 1 THEN 2 ELSE 1)

\* C6: under policy 7 (8) the next size is 2 exactly when the run of
\* consecutive losses is at least 2 (3), and 1 otherwise.
C6_Policy7to8Sizes ==
    (variant = "dps_sub" /\ strategy_id \in {7, 8} /\ Evaluating) =>
        position_size = (IF LossRun(i) >= strategy_id - 5 THEN 2 ELSE 1)

\* C7: under policy k in {9..12} the evaluator is Paused exactly when the run
\* of consecutive wins has reached k-8, and a loss returns it to Trading
\* with size 1.
C7_PauseAfterKWins ==
    (strategy_id \in 9..12 /\ Evaluating) =>
        /\ IsPaused(state) <=> (WinRun(i) >= strategy_id - 8)
        /\ IsLoss(i) => position_size = 1

\* C8: under policy 13 the size becomes 2 only once two consecutive wins have
\* been observed and 1 only once two consecutive losses have been observed;
\* a single win or loss leaves it unchanged.
C8_Policy13Sizes ==
    (variant = "dps_sub" /\ strategy_id = 13 /\ Evaluating) =>
        position_size =
            (IF IsWin(i)
             THEN (IF WinRun(i) >= 2 THEN 2 ELSE sizes[i])
             ELSE (IF LossRun(i) >= 2 THEN 1 ELSE sizes[i]))

\* C9: under policy 14 the next size is 2 if and only if the previous two
\* outcomes were one win and one loss, in either order.
C9_Policy14Sizes ==
    (strategy_id = 14 /\ Evaluating) =>
        position_size =
            (IF i >= 2 /\ ((IsWin(i - 1) /\ IsLoss(i)) \/ (IsLoss(i - 1) /\ IsWin(i)))
             THEN 2 ELSE 1)

\* C10: under policy 15 the evaluator is Paused only after 2 consecutive
\* wins, and the loss that ends the pause resumes Trading at size 2.
C10_Policy15PauseResume ==
    (strategy_id = 15 /\ Evaluating) =>
        /\ IsPaused(state) => WinRun(i) >= 2
        /\ (i >= 3 /\ IsLoss(i) /\ WinRun(i - 1) >= 2) =>
              (~IsPaused(state) /\ position_size = 2)

\* C11: under policy 16 the evaluator is Paused after any win observed while
\* Trading, and while Trading the next size is 2 only after 2 consecutive
\* losses (a single loss leaves it at 1).
C11_Policy16PauseAndSize ==
    (variant = "dps_sub" /\ strategy_id = 16 /\ Evaluating) =>
        /\ IsWin(i) => IsPaused(state)
        /\ IsLoss(i) =>
              /\ ~IsPaused(state)
              /\ position_size = 2 => LossRun(i) >= 2

\* C12: under policy 17 the next size is 2 if and only if the outcome just
\* observed is a win and the outcome before it was a loss; it is 1 otherwise,
\* also after a win on the very first trade.
C12_Policy17Sizes ==
    (variant = "dps_sub" /\ strategy_id = 17 /\ Evaluating) =>
        position_size =
            (IF IsWin(i) /\ i >= 2 /\ IsLoss(i - 1) THEN 2 ELSE 1)

\* C13: under policy 18 the size becomes 3 only once 3 consecutive wins have
\* been observed, and is 1 after any loss.
C13_Policy18Sizes ==
    (variant = "dps_sub" /\ strategy_id = 18 /\ Evaluating) =>
        /\ position_size \in {1, 3}
        /\ position_size = 3 <=> WinRun(i) >= 3

\* C14: under policy 20 the next size is 2 after a win unless the size just
\* used was 3 (then 1), 3 after 2 consecutive losses, and 1 otherwise.
C14_Policy20Sizes ==
    (strategy_id = 20 /\ Evaluating) =>
        position_size =
            (IF IsWin(i) THEN (IF sizes[i] = 3 THEN 1 ELSE 2)
             ELSE IF LossRun(i) >= 2 THEN 3 ELSE 1)

\* C15: under policy 19 the next size is 2 when the run of consecutive wins
\* is at least 2, 3 when the run of consecutive losses is at least 2, and 1
\* otherwise.
C15_Policy19Sizes ==
    (variant = "dps_sub" /\ strategy_id = 19 /\ Evaluating) =>
        position_size =
            (IF WinRun(i) >= 2 THEN 2
             ELSE IF LossRun(i) >= 2 THEN 3 ELSE 1)

C15_Witness ==
    /\ variant = "dps_sub"
    /\ strategy_id = 19
    /\ pc = "done"
    /\ \E j \in 1..Len(sizes) : sizes[j] = 2
    /\ \E j \in 1..Len(sizes) : sizes[j] = 3
    /\ \E j \in 2..Len(sizes) : sizes[j] = 1 /\ IsWin(j - 1)

\* C16: under policy 6 the next size is 2 after any loss and 1 after any win.
C16_Policy6Sizes ==
    (strategy_id = 6 /\ Evaluating) =>
        /\ position_size = (IF IsLoss(i) THEN 2 ELSE 1)
        /\ \A j \in 2..Len(sizes) :
              sizes[j] = (IF IsLoss(j - 1) THEN 2 ELSE 1)

C16_Witness ==
    /\ strategy_id = 6
    /\ pc = "done"
    /\ \E j \in 2..Len(sizes) : sizes[j] = 2 /\ equity[j] = 2 * results[j]
    /\ \E j \in 2..Len(sizes) : sizes[j] = 1

PauseFamily == {9, 10, 11, 12, 15, 16}

\* C17 as stated: in a pause-family policy, whenever the mode is Paused the
\* position size is 0 and the trade evaluated in that state contributes 0.
C17_PausedSizeZero ==
    (strategy_id \in PauseFamily /\ pc \in {"loop", "done"}) =>
        /\ state.mode # "trading" => position_size = 0
        /\ \A j \in 1..Len(modes) :
              modes[j] # "trading" => (sizes[j] = 0 /\ equity[j] = 0)

\* C17 (amended): in a pause-family policy every trade evaluated while the
\* mode is Paused contributes 0 to equity; in dps_sub the position size of a
\* paused trade is 0 exactly when the trade before it was paused too, and is
\* still the non-zero size set on entering the pause otherwise.
C17_PausedContributesZero ==
    (strategy_id \in PauseFamily /\ pc \in {"loop", "done"}) =>
        \A j \in 1..Len(modes) :
            modes[j] # "trading" =>
                /\ equity[j] = 0
                /\ j >= 2
                /\ variant = "dps_sub" =>
                      ((sizes[j] = 0) <=> (modes[j - 1] # "trading"))
                /\ sizes[j] \in 0..2

C17_Witness ==
    /\ strategy_id \in PauseFamily
    /\ pc = "done"
    /\ \E j \in 3..Len(modes) :
          /\ modes[j - 1] # "trading" /\ sizes[j - 1] > 0 /\ equity[j - 1] = 0
          /\ modes[j] # "trading" /\ sizes[j] = 0 /\ equity[j] = 0

\* C18: at every step state.win_streak (loss_streak) is the number of
\* consecutive wins (losses) immediately preceding the next trade.
C18_StreaksCountRuns ==
    Evaluating =>
        /\ state.win_streak = WinRun(i)
        /\ state.loss_streak = LossRun(i)

\* C19: the position size is always in {0,1,2,3}; size 0 occurs only for the
\* pause-family policies and size 3 only for policies 18-20.
C19_SizeRange ==
    /\ position_size \in 0..3
    /\ position_size = 0 => strategy_id \in PauseFamily
    /\ position_size = 3 => strategy_id \in 18..20
    /\ \A j \in 1..Len(sizes) :
          /\ sizes[j] \in 0..3
          /\ sizes[j] = 0 => strategy_id \in PauseFamily
          /\ sizes[j] = 3 => strategy_id \in 18..20

C19_Witness ==
    /\ pc = "done"
    /\ strategy_id = 16
    /\ \E j \in 1..Len(sizes) : sizes[j] = 0
    /\ \E j \in 1..Len(sizes) : sizes[j] = 2
    /\ position_size = 1

\* The contributions strategy_dynamic records from trade k on, started from
\* the given size and state.
RECURSIVE ContributionsFrom(_, _, _, _, _, _)
ContributionsFrom(v, id, res, k, size, st) ==
    IF k > Len(res) THEN <<>>
    ELSE LET r == make_condition_func(v, id, res[k], size,
                                      UpdateStreaks(v, res[k], st))
         IN  <<Contribution(res[k], size, st)>> \o
             ContributionsFrom(v, id, res, k + 1, r.size, r.state)

\* The sample of policy id on res when evaluated on its own, from a fresh
\* StrategyState (streaks 0, mode Trading, size 1).
FreshSample(v, id, res) ==
    IF id = 1
    THEN <<np_sum(res), calculate_drawdown(np_cumsum(res))>>
    ELSE LET eq == ContributionsFrom(v, id, res, 1, 1, FreshState)
         IN  <<np_sum(eq), calculate_drawdown(np_cumsum(eq))>>

\* C20: every evaluation starts from streaks 0, mode Trading, size 1, and
\* its sample is the one the policy yields on that sequence when evaluated
\* on its own, whatever was evaluated before it in the run.
C20_SampleIndependentOfHistory ==
    /\ (pc = "loop" /\ i = 0) =>
          /\ position_size = 1
          /\ state.win_streak = 0 /\ state.loss_streak = 0
          /\ state.mode = "trading"
          /\ state.last_result = 0 /\ state.last2_result = 0
          /\ ~state.paused /\ state.last_size = 1
    /\ pc = "done" =>
          <<total_profit, drawdown>> = FreshSample(variant, strategy_id, results)

C20_Witness ==
    /\ pc = "done"
    /\ mc = NumMcShuffles
    /\ strategy_id = 10
    /\ Len(summary[9]) = NumMcShuffles
    /\ Len(results) >= 3
    /\ equity[Len(results)] = 0
    /\ total_profit > 0

\* C21: evaluating a policy (the call, every loop iteration, the return and
\* the append of its sample) leaves the shared trade sequence as it was, so
\* within one shuffle policy k + 1 reads the sequence policy k read.
C21_EvaluationKeepsBuffer ==
    [][(pc \in {"call", "loop", "done"}) => (results' = results)]_vars

\* The last policy of a shuffle is about to be evaluated, with policies
\* 1..19 already evaluated on the same buffer, and one of them scaled a trade.
C21_Witness ==
    /\ pc = "done"
    /\ strategy_id = 20
    /\ Len(results) >= 2
    /\ \E k \in 2..19 : Len(summary[k]) = mc
                        /\ summary[k][mc] # summary[1][mc]

----------------------------------------------------------------------------
(* Properties of the trade generators (SpecGen) *)

RECURSIVE PositiveLengthSum(_)
\* Sum of the positive 'length' entries of a phase list.
PositiveLengthSum(ps) ==
    IF ps = <<>> THEN 0
    ELSE Max2(Head(ps).length, 0) + PositiveLengthSum(Tail(ps))

\* The generator has built its phase list.
PhasesBuilt == pc \in {"gen_loop", "gen_after", "gen_done"}

\* C27: simulate_trades_dynamic returns exactly num_trades outcomes for
\* every num_trades > 0: the phases never produce more than num_trades
\* (results and trades_left always add up to num_trades) and whatever the
\* phases leave over is backfilled before the return.
C27_DynamicLength ==
    (gen_model = "dynamic" /\ PhasesBuilt) =>
        /\ Len(results) <= num_trades
        /\ pc \in {"gen_loop", "gen_after"} =>
               (trades_left >= 0 /\ Len(results) + trades_left = num_trades)
        /\ pc = "gen_done" => Len(results) = num_trades

\* The phased generator has returned after backfilling a trade the phases
\* left over.
C27_Witness ==
    /\ gen_model = "dynamic"
    /\ pc = "gen_done"
    /\ num_trades = 9
    /\ trades_left = 1
    /\ Len(results) = 9

\* C28: the first- and second-order Markov generators return exactly
\* num_trades outcomes for every num_trades > 0, num_trades = 1 included.
C28_MarkovLength ==
    (gen_model \in {"markov", "markov2"} /\ pc = "gen_done") =>
        Len(results) = num_trades

\* C29: simulate_trades_regime_switch returns min(num_trades, sum of the
\* positive regime lengths) outcomes: regimes of length <= 0 add nothing,
\* nothing is backfilled, and the result never exceeds num_trades.
C29_RegimeLength ==
    (gen_model = "regime" /\ PhasesBuilt) =>
        /\ Len(results) <= num_trades
        /\ pc = "gen_done" =>
               Len(results) = Min2(num_trades, PositiveLengthSum(phases))

\* The regime generator has returned fewer than num_trades outcomes from a
\* list that holds a regime of length <= 0 followed by a positive one.
C29_Witness ==
    /\ gen_model = "regime"
    /\ pc = "gen_done"
    /\ regimes.given
    /\ Len(phases) = 2
    /\ phases[1].length <= 0
    /\ phases[2].length > 0
    /\ Len(results) = phases[2].length
    /\ Len(results) < num_trades

\* C30 as stated: the three phase lengths are floor(0.2 n), floor(0.2 n)
\* and a last phase that absorbs the remainder, so that they sum to
\* num_trades.
C30_PhaseLengthsSumToN ==
    (gen_model = "dynamic" /\ PhasesBuilt) =>
        /\ phases[1].length = num_trades \div 5
        /\ phases[2].length = num_trades \div 5
        /\ PositiveLengthSum(phases) = num_trades

\* C30 amended: the three phase lengths are floor(0.2 n), floor(0.2 n) and
\* n - floor(0.4 n); they sum to n when n mod 5 is 0, 1 or 2 (2, 2, 6 for
\* n = 10) and to n - 1 otherwise, and the returned sequence has n outcomes
\* in both cases.
C30_PhaseLengths ==
    (gen_model = "dynamic" /\ PhasesBuilt) =>
        /\ phases[1].length = num_trades \div 5
        /\ phases[2].length = num_trades \div 5
        /\ phases[3].length = num_trades - ((2 * num_trades) \div 5)
        /\ PositiveLengthSum(phases) =
               IF num_trades % 5 \in {0, 1, 2} THEN num_trades
               ELSE num_trades - 1
        /\ num_trades = 10 =>
               <<phases[1].length, phases[2].length, phases[3].length>>
                   = <<2, 2, 6>>
        /\ pc = "gen_done" => Len(results) = num_trades

\* The phased generator has returned for a num_trades whose phase lengths
\* sum to one less.
C30_Witness ==
    /\ gen_model = "dynamic"
    /\ pc = "gen_done"
    /\ num_trades = 3
    /\ PositiveLengthSum(phases) = 2
    /\ Len(results) = 3

----------------------------------------------------------------------------
(* Properties of run_all_strategies as a whole (SpecAgg) *)

\* A shuffle is in progress: its policies are being evaluated.
InShuffle == pc \in {"call", "loop", "done"}

\* The (outer iteration, shuffle) pairs completed so far.
PairsCompleted ==
    CASE pc = "simulate" -> sim * NumMcShuffles
      [] pc = "shuffle" -> (sim - 1) * NumMcShuffles + mc
      [] InShuffle -> (sim - 1) * NumMcShuffles + (mc - 1)
      [] OTHER -> NumSimulations * NumMcShuffles

\* The position of policy id in the ranked list, 0 if it has none.
RankOf(id) ==
    IF \E k \in 1..Len(summary_final) :
           summary_final[k].description = descriptions(variant)[id]
    THEN CHOOSE k \in 1..Len(summary_final) :
           summary_final[k].description = descriptions(variant)[id]
    ELSE 0

\* C22: every (outer iteration, shuffle) pair adds exactly one sample to
\* each of the 20 policies, the sample of that policy on the sequence the
\* shuffle left in the buffer; when the loops finish every policy holds
\* num_simulations * num_mc_shuffles samples.
C22_OneSamplePerPolicyPerShuffle ==
    \A k \in PolicyIds :
        /\ Len(summary[k]) =
               PairsCompleted + (IF InShuffle /\ k < strategy_id THEN 1 ELSE 0)
        /\ (InShuffle /\ k < strategy_id) =>
               summary[k][Len(summary[k])] = FreshSample(variant, k, results)
        /\ pc \in {"finished", "returned"} =>
               Len(summary[k]) = NumSimulations * NumMcShuffles

\* The loops have finished with num_simulations * num_mc_shuffles samples
\* per policy, drawn from different sequences.
C22_Witness ==
    /\ pc = "finished"
    /\ sim = NumSimulations
    /\ mc = NumMcShuffles
    /\ \A k \in PolicyIds : Len(summary[k]) = NumSimulations * NumMcShuffles
    /\ summary[2][1] # summary[2][NumSimulations * NumMcShuffles]

\* C23: the ranked list has exactly 20 entries, one for each policy id, and
\* their descriptions are pairwise distinct.
C23_TwentyDistinctEntries ==
    pc = "returned" =>
        /\ Len(summary_final) = 20
        /\ \A id \in PolicyIds : RankOf(id) # 0
        /\ \A a, b \in 1..Len(summary_final) :
               a # b => summary_final[a].description # summary_final[b].description

\* The list was returned for a run in which one policy has a
\* profit_to_max_drawdown of exactly 0 and another a negative one.
C23_Witness ==
    /\ pc = "returned"
    /\ \E a, b \in 1..Len(summary_final) :
           /\ FloatEq(summary_final[a].ratio_max_dd, Fin(0, 1))
           /\ Negative(summary_final[b])

\* C24: in the ranked list every entry with a non-negative
\* profit_to_max_drawdown precedes every entry with a negative one, and the
\* non-negative entries are in descending order of profit_to_max_drawdown.
C24_NonNegativeFirstDescending ==
    pc = "returned" =>
        \A a, b \in 1..Len(summary_final) :
            a < b =>
                /\ ~(Negative(summary_final[a]) /\ NonNegative(summary_final[b]))
                /\ (NonNegative(summary_final[a]) /\ NonNegative(summary_final[b])) =>
                       ~FloatLess(summary_final[a].ratio_max_dd,
                                  summary_final[b].ratio_max_dd)

\* The list was returned with two different non-negative values of
\* profit_to_max_drawdown, one of them infinite, and a negative one in it.
C24_Witness ==
    /\ pc = "returned"
    /\ \E b, c, d \in 1..Len(summary_final) :
           /\ summary_final[b].ratio_max_dd.kind = "inf"
           /\ NonNegative(summary_final[c])
           /\ FloatLess(summary_final[c].ratio_max_dd, summary_final[b].ratio_max_dd)
           /\ Negative(summary_final[d])

\* C25: in the ranked list the entries with a negative
\* profit_to_max_drawdown are ordered least negative first, in both
\* simulator variants.
C25_NegativeLeastNegativeFirst ==
    pc = "returned" =>
        \A a, b \in 1..Len(summary_final) :
            (a < b /\ Negative(summary_final[a]) /\ Negative(summary_final[b])) =>
                ~FloatLess(summary_final[a].ratio_max_dd,
                           summary_final[b].ratio_max_dd)

\* C26: in every row of the ranked list, ratio is float('inf') when the
\* policy's avg_drawdown is 0 and avg_profit / |avg_drawdown| otherwise,
\* and profit_to_max_drawdown is float('inf') when its max_drawdown is 0 and
\* avg_profit / |max_drawdown| otherwise; the run returns in both cases.
C26_RatioOrInfinite ==
    pc = "returned" =>
        \A id \in PolicyIds :
            LET row == summary_final[RankOf(id)]
                n == Len(summary[id])
                sum_profit == np_sum([k \in 1..n |-> summary[id][k][1]])
                sum_dd == np_sum([k \in 1..n |-> summary[id][k][2]])
                max_dd == np_max_list([k \in 1..n |-> summary[id][k][2]])
            IN  /\ RankOf(id) # 0
                /\ IF sum_dd = 0
                   THEN row.ratio = Inf
                   ELSE /\ row.ratio.kind = "fin"
                        /\ row.ratio.den > 0
                        /\ row.ratio.num * Abs(sum_dd) = sum_profit * row.ratio.den
                /\ IF max_dd = 0
                   THEN row.ratio_max_dd = Inf
                   ELSE /\ row.ratio_max_dd.kind = "fin"
                        /\ row.ratio_max_dd.den > 0
                        /\ row.ratio_max_dd.num * (n * Abs(max_dd))
                               = sum_profit * row.ratio_max_dd.den

\* The list was returned with a row whose avg_drawdown is not 0 while its
\* max_drawdown is, and a row whose avg_drawdown is 0.
C26_Witness ==
    /\ pc = "returned"
    /\ \E a, b \in 1..Len(summary_final) :
           /\ summary_final[a].ratio.kind = "fin"
           /\ summary_final[a].ratio_max_dd.kind = "inf"
           /\ summary_final[b].ratio.kind = "inf"

----------------------------------------------------------------------------
(* run_all_strategies with use_regime: the base sequence of every outer    *)
(* iteration comes from simulate_trades_regime_switch (SpecRegimeRun).     *)

RECURSIVE RegimeSeqs(_, _)
\* The sequences the loop of simulate_trades_regime_switch can return for
\* the regime list ps with trades_left = left.
RegimeSeqs(ps, left) ==
    IF ps = <<>> \/ left <= 0 THEN {<<>>}
    ELSE LET l == Min2(Head(ps).length, left)
         IN  IF l <= 0 THEN RegimeSeqs(Tail(ps), left)
             ELSE {a \o b :
                     a \in ChoiceSeq(l, Head(ps).avg_win, Head(ps).avg_loss,
                                     Head(ps).hit_rate),
                     b \in RegimeSeqs(Tail(ps), left - l)}

\* simulate_trades_regime_switch(num_trades, regimes).
simulate_trades_regime_switch(n, r) ==
    RegimeSeqs(IF r.given THEN r.list ELSE DefaultRegimes(n), n)

\* The regimes arguments of the regime-fed runs: None, or a list of at most
\* one regime.
RunRegimeArgs == {r \in RegimeArgs : Len(r.list) <= 1}

\* The state at the call of run_all_strategies(..., use_regime=True).
RegimeRunInit ==
    /\ MainIdle
    /\ variant = "dps_sub"
    /\ num_trades \in AggTradeCounts
    /\ gen_model = "regime"
    /\ regimes \in RunRegimeArgs
    /\ pc = "simulate"
    /\ sim = 0
    /\ mc = 0
    /\ results = <<>>
    /\ strategy_id = 1
    /\ i = 0
    /\ position_size = 1
    /\ state = FreshState
    /\ equity = <<>>
    /\ cumulative_equity = <<>>
    /\ total_profit = 0
    /\ drawdown = 0
    /\ sizes = <<>>
    /\ modes = <<>>
    /\ summary = [k \in PolicyIds |-> <<>>]
    /\ summary_final = <<>>
    /\ gen_args = [hit_rate |-> 50, avg_win |-> 100, avg_loss |-> 100]
    /\ phases = <<>>
    /\ trades_left = 0
    /\ phase_idx = 0

\* One pass of 'for _ in range(num_simulations)' up to the inner loop, in
\* the use_regime branch.
SimulateRegime ==
    /\ UNCHANGED mainVars
    /\ pc = "simulate"
    /\ sim < NumSimulations
    /\ sim' = sim + 1
    /\ results' \in simulate_trades_regime_switch(num_trades, regimes)
    /\ mc' = 0
    /\ pc' = "shuffle"
    /\ UNCHANGED <<variant, strategy_id, i, position_size, state, equity,
                   cumulative_equity, total_profit, drawdown, sizes, modes,
                   summary, summary_final, genVars>>

RegimeRunNext ==
    \/ SimulateRegime
    \/ Shuffle
    \/ CallStatic
    \/ CallDynamic
    \/ DynStep
    \/ DynReturn
    \/ AppendSample
    \/ Rank

SpecRegimeRun == RegimeRunInit /\ [][RegimeRunNext]_vars

\* C31: a run whose regime-switching sequence is shorter than num_trades
\* (length 0 included) never ends in an exception: all 20 policies are
\* evaluated and the statistics are computed.
C31_ShortRegimeRunCompletes ==
    Len(results) < num_trades => pc # "raised"

----------------------------------------------------------------------------
(* run_all_strategies over valid and invalid generation parameters, with   *)
(* the default generator simulate_trades_dynamic (SpecParams).             *)

\* np.random.choice raises ValueError when p is not a probability vector.
ChoiceRaises(p) == p < 0 \/ p > 100

RECURSIVE PhasedRaises(_, _, _)
\* simulate_trades_dynamic raises: some draw it makes, in a phase or in the
\* backfill, has an invalid p.
PhasedRaises(ps, left, a) ==
    IF ps = <<>> \/ left <= 0
    THEN left > 0 /\ ChoiceRaises(a.hit_rate)
    ELSE LET l == Min2(Head(ps).length, left)
         IN  IF l <= 0 THEN PhasedRaises(Tail(ps), left, a)
             ELSE \/ ChoiceRaises(Head(ps).hit_rate)
                  \/ PhasedRaises(Tail(ps), left - l, a)

RECURSIVE PhasedSeqs(_, _, _)
\* The sequences simulate_trades_dynamic can return from phase list ps on,
\* with trades_left = left: the phases, then the backfill.
PhasedSeqs(ps, left, a) ==
    IF ps = <<>> \/ left <= 0
    THEN IF left > 0
         THEN ChoiceSeq(left, a.avg_win, a.avg_loss, a.hit_rate)
         ELSE {<<>>}
    ELSE LET l == Min2(Head(ps).length, left)
         IN  IF l <= 0 THEN PhasedSeqs(Tail(ps), left, a)
             ELSE {x \o y :
                     x \in ChoiceSeq(l, Head(ps).avg_win, Head(ps).avg_loss,
                                     Head(ps).hit_rate),
                     y \in PhasedSeqs(Tail(ps), left - l, a)}

\* The hit_rate (percent), avg_win and avg_loss arguments tried, valid and
\* invalid.
ParamArgs == [hit_rate : {50, 150}, avg_win : {100, -100}, avg_loss : {100, 0}]

\* The num_trades arguments tried, valid and invalid.
ParamTradeCounts == {0, 1, 2}

\* The state at the call of run_all_strategies.
ParamsInit ==
    /\ MainIdle
    /\ variant \in Variants
    /\ num_trades \in ParamTradeCounts
    /\ gen_model = "dynamic"
    /\ gen_args \in ParamArgs
    /\ regimes = [given |-> FALSE, list |-> <<>>]
    /\ pc = "simulate"
    /\ sim = 0
    /\ mc = 0
    /\ results = <<>>
    /\ strategy_id = 1
    /\ i = 0
    /\ position_size = 1
    /\ state = FreshState
    /\ equity = <<>>
    /\ cumulative_equity = <<>>
    /\ total_profit = 0
    /\ drawdown = 0
    /\ sizes = <<>>
    /\ modes = <<>>
    /\ summary = [k \in PolicyIds |-> <<>>]
    /\ summary_final = <<>>
    /\ phases = <<>>
    /\ trades_left = 0
    /\ phase_idx = 0

\* One pass of 'for _ in range(num_simulations)' up to the inner loop, in
\* the default branch: base_results = simulate_trades_dynamic(num_trades,
\* hit_rate, avg_win, avg_loss), with no check of the arguments before it.
SimulateDynamic ==
    /\ UNCHANGED mainVars
    /\ pc = "simulate"
    /\ sim < NumSimulations
    /\ sim' = sim + 1
    /\ IF PhasedRaises(DynamicPhases(num_trades, gen_args), num_trades, gen_args)
       THEN /\ pc' = "raised"
            /\ UNCHANGED <<results, mc>>
       ELSE /\ results' \in PhasedSeqs(DynamicPhases(num_trades, gen_args),
                                      num_trades, gen_args)
            /\ mc' = 0
            /\ pc' = "shuffle"
    /\ UNCHANGED <<variant, strategy_id, i, position_size, state, equity,
                   cumulative_equity, total_profit, drawdown, sizes, modes,
                   summary, summary_final, genVars>>

ParamsNext ==
    \/ SimulateDynamic
    \/ Shuffle
    \/ CallStatic
    \/ CallDynamic
    \/ DynStep
    \/ DynReturn
    \/ AppendSample
    \/ Rank

SpecParams == ParamsInit /\ [][ParamsNext]_vars

\* The generation parameters are invalid: a non-positive avg_win or
\* avg_loss, a hit rate outside [0, 1] or a non-positive num_trades.
InvalidParameter ==
    \/ gen_args.avg_win <= 0
    \/ gen_args.avg_loss <= 0
    \/ gen_args.hit_rate < 0
    \/ gen_args.hit_rate > 100
    \/ num_trades <= 0

\* C32: with invalid generation parameters run_all_strategies signals the
\* condition instead of returning: it never returns a ranking.
C32_InvalidParameterRejected ==
    InvalidParameter =>
        /\ pc # "returned"
        /\ summary_final = <<>>

----------------------------------------------------------------------------
(* find_break_even_hit_rate as main calls it (SpecBreakEven).  Rates are   *)
(* exact fractions.                                                        *)

\* The variables of run_all_strategies and of the generators.
coreVars == <<strategy_id, results, i, position_size, state, equity,
              cumulative_equity, total_profit, drawdown, sizes, modes,
              summary, mc, sim, summary_final, gen_model, num_trades,
              regimes, phases, trades_left, phase_idx>>

\* Their values while run_all_strategies is not running.
CoreIdle ==
    /\ strategy_id = 1
    /\ results = <<>>
    /\ i = 0
    /\ position_size = 1
    /\ state = FreshState
    /\ equity = <<>>
    /\ cumulative_equity = <<>>
    /\ total_profit = 0
    /\ drawdown = 0
    /\ sizes = <<>>
    /\ modes = <<>>
    /\ summary = [k \in PolicyIds |-> <<>>]
    /\ mc = 0
    /\ sim = 0
    /\ summary_final = <<>>
    /\ gen_model = "none"
    /\ num_trades = 0
    /\ regimes = [given |-> FALSE, list |-> <<>>]
    /\ phases = <<>>
    /\ trades_left = 0
    /\ phase_idx = 0

\* The variables of the seeded double run.
seedVars == <<rng_seed, rng, run, trace, first_trace, first_final>>

\* Their values while no seeded run is modelled.
SeedIdle ==
    /\ rng_seed = 0
    /\ rng = 0
    /\ run = 0
    /\ trace = <<>>
    /\ first_trace = <<>>
    /\ first_final = <<>>

\* The mode strings main can pass.
BreakEvenModes(v) ==
    IF v = "dps_sub"
    THEN {"No Markov", "1st Order Markov", "2nd Order Markov", "Regime Switching"}
    ELSE {"No Markov", "1st Order Markov"}

\* The avg_win and avg_loss arguments tried.
BreakEvenAmounts == {-100, 0, 100, 300, 500}

\* Python's None, and an uncaught ZeroDivisionError.
NoneValue == [kind |-> "None", num |-> 0, den |-> 1]

ZeroDivisionError == [kind |-> "ZeroDivisionError", num |-> 0, den |-> 1]

\* x / y for numbers, y # 0, with a positive denominator.
Quotient(x, y) == IF y < 0 THEN Fin(-x, -y) ELSE Fin(x, y)

\* A variant of the dps_sub function that applies the first-order
\* adjustment in every mode but the other two adjusted ones.
dps_find_break_even_hit_rate_adjusted(avg_win, avg_loss, m) ==
    IF avg_win <= 0 \/ avg_loss <= 0 THEN NoneValue
    ELSE LET base_rate == Quotient(avg_loss, avg_win + avg_loss)
         IN  CASE m = "2nd Order Markov" ->
                      Fin(base_rate.num * 1075, base_rate.den * 1000)
               [] m = "Regime Switching" ->
                      Fin(base_rate.num * 31, base_rate.den * 30)
               [] OTHER ->
                      Fin(base_rate.num * 104, base_rate.den * 100)

\* dps_sub.find_break_even_hit_rate: None for a non-positive amount, else
\* avg_loss / (avg_win + avg_loss), multiplied by 1 + (0.7 - 0.5) / 5,
\* 1 + (0.8 - 0.5) / 4 or 1 + (0.6 - 0.5) / 3 in the three adjusted modes.
dps_find_break_even_hit_rate(avg_win, avg_loss, m) ==
    IF avg_win <= 0 \/ avg_loss <= 0 THEN NoneValue
    ELSE LET base_rate == Quotient(avg_loss, avg_win + avg_loss)
         IN  CASE m = "1st Order Markov" ->
                      Fin(base_rate.num * 104, base_rate.den * 100)
               [] m = "2nd Order Markov" ->
                      Fin(base_rate.num * 1075, base_rate.den * 1000)
               [] m = "Regime Switching" ->
                      Fin(base_rate.num * 31, base_rate.den * 30)
               [] OTHER -> base_rate

\* MyTradingSimulator_sub.find_break_even_hit_rate: the bare quotient.
mts_find_break_even_hit_rate(avg_win, avg_loss) ==
    IF avg_win + avg_loss = 0 THEN ZeroDivisionError
    ELSE Quotient(avg_loss, avg_win + avg_loss)

find_break_even_hit_rate(v, avg_win, avg_loss, m) ==
    IF v = "dps_sub" THEN dps_find_break_even_hit_rate(avg_win, avg_loss, m)
    ELSE mts_find_break_even_hit_rate(avg_win, avg_loss)

\* main has parsed its arguments and derived the mode.
BreakEvenInit ==
    /\ variant \in Variants
    /\ gen_args \in [hit_rate : {50}, avg_win : BreakEvenAmounts,
                     avg_loss : BreakEvenAmounts]
    /\ mode \in BreakEvenModes(variant)
    /\ breakeven = [kind |-> "unset", num |-> 0, den |-> 1]
    /\ pc = "be_call"
    /\ CoreIdle
    /\ SeedIdle
    /\ OrchIdle

\* breakeven = find_break_even_hit_rate(args.avg_win, args.avg_loss, mode).
BreakEvenCall ==
    /\ pc = "be_call"
    /\ breakeven' = find_break_even_hit_rate(variant, gen_args.avg_win,
                                              gen_args.avg_loss, mode)
    /\ pc' = "be_done"
    /\ UNCHANGED <<variant, gen_args, mode, coreVars, seedVars, orchVars>>

BreakEvenNext ==
    \/ BreakEvenCall

SpecBreakEven == BreakEvenInit /\ [][BreakEvenNext]_vars

\* C34: for avg_win > 0 and avg_loss > 0 the break-even hit rate of the
\* no-Markov mode is exactly avg_loss / (avg_win + avg_loss), in both
\* simulator files; 300 and 500 give 5/8 = 0.625.
C34_BreakEvenNoMarkov ==
    (pc = "be_done" /\ mode = "No Markov"
        /\ gen_args.avg_win > 0 /\ gen_args.avg_loss > 0) =>
        /\ breakeven.kind = "fin"
        /\ breakeven.den > 0
        /\ breakeven.num * (gen_args.avg_win + gen_args.avg_loss)
               = gen_args.avg_loss * breakeven.den
        /\ (gen_args.avg_win = 300 /\ gen_args.avg_loss = 500) =>
               breakeven.num * 8 = 5 * breakeven.den

\* The rate was computed in the no-Markov mode of dps_sub for 300 and 500.
C34_Witness ==
    /\ pc = "be_done"
    /\ variant = "dps_sub"
    /\ mode = "No Markov"
    /\ gen_args.avg_win = 300
    /\ gen_args.avg_loss = 500
    /\ breakeven.kind = "fin"

----------------------------------------------------------------------------
(* Further properties of run_all_strategies as a whole (SpecAgg) *)

\* C35: in the ranked list no policy of negative avg_profit stands ahead of
\* a policy of positive avg_profit.
C35_LosingNeverAheadOfWinning ==
    pc = "returned" =>
        \A a, b \in 1..Len(summary_final) :
            a < b => ~(/\ summary_final[a].avg_profit.num < 0
                       /\ summary_final[b].avg_profit.num > 0)

\* Number of occurrences of x in the sequence s.
Count(s, x) == Cardinality({k \in 1..Len(s) : s[k] = x})

\* t is a permutation of s: same length, same multiset of outcomes.
IsPermutation(s, t) ==
    /\ Len(s) = Len(t)
    /\ \A x \in {s[k] : k \in 1..Len(s)} \cup {t[k] : k \in 1..Len(t)} :
           Count(s, x) = Count(t, x)

\* The samples of policy 1 that belong to the same outer iteration have the
\* same total_profit.
Policy1ProfitConstantPerIteration ==
    \A a, b \in 1..Len(summary[1]) :
        ((a - 1) \div NumMcShuffles = (b - 1) \div NumMcShuffles) =>
            summary[1][a][1] = summary[1][b][1]

\* C36: every in-place shuffle leaves a permutation of the buffer it found,
\* hence of the base sequence generated for the iteration, and policy 1's
\* total_profit is the same for all num_mc_shuffles samples of an iteration.
C36_ShuffleIsPermutation ==
    /\ []Policy1ProfitConstantPerIteration
    /\ [][(pc = "shuffle") => IsPermutation(results, results')]_vars

\* The last iteration has been shuffled into two different orders: policy
\* 1's last two samples differ in drawdown but not in total_profit.
C36_Witness ==
    /\ pc = "finished"
    /\ Len(results) = 2
    /\ LET last == NumSimulations * NumMcShuffles
       IN  /\ Len(summary[2]) = last
           /\ summary[1][last][2] # summary[1][last - 1][2]
           /\ summary[1][last][1] = summary[1][last - 1][1]

----------------------------------------------------------------------------
(* Two runs of run_all_strategies from the same seed (SpecSeeded).  All    *)
(* randomness of the run comes from numpy's global generator, modelled as  *)
(* a small linear congruential generator: every draw reads the state and   *)
(* advances it.                                                            *)

\* The seeds tried.
Seeds == 0..7

\* The generator's state after one draw.
NextRng(r) == (r * 5 + 3) % 64

\* The uniform number in [0, 1) the state yields, in percent.
Rand(r) == (r * 100) \div 64

RECURSIVE np_random_choice(_, _, _, _, _)
\* np.random.choice([avg_win, -avg_loss], size=l, p=[p, 1 - p]) on generator
\* state r: the l outcomes and the state left behind.
np_random_choice(l, avg_win, avg_loss, p, r) ==
    IF l <= 0 THEN [seq |-> <<>>, rng |-> r]
    ELSE LET rest == np_random_choice(l - 1, avg_win, avg_loss, p, NextRng(r))
         IN  [seq |-> <<IF Rand(r) < p THEN avg_win ELSE -avg_loss>> \o rest.seq,
              rng |-> rest.rng]

RECURSIVE SeededPhased(_, _, _, _)
\* simulate_trades_dynamic from phase list ps on, with trades_left = left,
\* on generator state r.
SeededPhased(ps, left, a, r) ==
    IF ps = <<>> \/ left <= 0
    THEN np_random_choice(left, a.avg_win, a.avg_loss, a.hit_rate, r)
    ELSE LET l == Min2(Head(ps).length, left)
         IN  IF l <= 0 THEN SeededPhased(Tail(ps), left, a, r)
             ELSE LET x == np_random_choice(l, Head(ps).avg_win,
                                            Head(ps).avg_loss,
                                            Head(ps).hit_rate, r)
                      y == SeededPhased(Tail(ps), left - l, a, x.rng)
                  IN  [seq |-> x.seq \o y.seq, rng |-> y.rng]

RECURSIVE ShuffleFrom(_, _, _)
\* The Fisher-Yates loop of np.random.shuffle from position k down.
ShuffleFrom(s, k, r) ==
    IF k < 2 THEN [seq |-> s, rng |-> r]
    ELSE LET j == 1 + ((r * k) \div 64)
         IN  ShuffleFrom([s EXCEPT ![k] = s[j], ![j] = s[k]], k - 1, NextRng(r))

\* np.random.shuffle(s) on generator state r.
np_random_shuffle(s, r) == ShuffleFrom(s, Len(s), r)

\* The generator is seeded and run_all_strategies is called.
SeededInit ==
    /\ variant \in Variants
    /\ num_trades \in AggTradeCounts
    /\ gen_model = "dynamic"
    /\ gen_args \in GenArgs
    /\ regimes = [given |-> FALSE, list |-> <<>>]
    /\ rng_seed \in Seeds
    /\ rng = rng_seed
    /\ run = 1
    /\ trace = <<>>
    /\ first_trace = <<>>
    /\ first_final = <<>>
    /\ OrchIdle
    /\ mode = "No Markov"
    /\ breakeven = [kind |-> "unset", num |-> 0, den |-> 1]
    /\ pc = "simulate"
    /\ sim = 0
    /\ mc = 0
    /\ results = <<>>
    /\ strategy_id = 1
    /\ i = 0
    /\ position_size = 1
    /\ state = FreshState
    /\ equity = <<>>
    /\ cumulative_equity = <<>>
    /\ total_profit = 0
    /\ drawdown = 0
    /\ sizes = <<>>
    /\ modes = <<>>
    /\ summary = [k \in PolicyIds |-> <<>>]
    /\ summary_final = <<>>
    /\ phases = <<>>
    /\ trades_left = 0
    /\ phase_idx = 0

\* base_results = simulate_trades_dynamic(...), drawing from the generator.
SeededSimulate ==
    /\ pc = "simulate"
    /\ sim < NumSimulations
    /\ sim' = sim + 1
    /\ LET g == SeededPhased(DynamicPhases(num_trades, gen_args), num_trades,
                             gen_args, rng)
       IN  /\ results' = g.seq
           /\ rng' = g.rng
           /\ trace' = Append(trace, g.seq)
    /\ mc' = 0
    /\ pc' = "shuffle"
    /\ UNCHANGED <<variant, strategy_id, i, position_size, state, equity,
                   cumulative_equity, total_profit, drawdown, sizes, modes,
                   summary, summary_final, genVars, mode, breakeven, rng_seed,
                   run, first_trace, first_final, orchVars>>

\* A variant of the seeded shuffle that takes its order from elsewhere than
\* the generator.
SeededShuffle_unseeded ==
    /\ pc = "shuffle"
    /\ \E t \in Shuffles(results) :
           /\ results' = t
           /\ trace' = Append(trace, t)
    /\ rng' = rng
    /\ mc' = mc + 1
    /\ strategy_id' = 1
    /\ pc' = "call"
    /\ UNCHANGED <<variant, i, position_size, state, equity,
                   cumulative_equity, total_profit, drawdown, sizes, modes,
                   summary, genVars, aggVars, mode, breakeven, rng_seed, run,
                   first_trace, first_final, orchVars>>

\* np.random.shuffle(base_results), drawing from the generator.
SeededShuffle ==
    /\ pc = "shuffle"
    /\ LET g == np_random_shuffle(results, rng)
       IN  /\ results' = g.seq
           /\ rng' = g.rng
           /\ trace' = Append(trace, g.seq)
    /\ mc' = mc + 1
    /\ strategy_id' = 1
    /\ pc' = "call"
    /\ UNCHANGED <<variant, i, position_size, state, equity,
                   cumulative_equity, total_profit, drawdown, sizes, modes,
                   summary, genVars, aggVars, mode, breakeven, rng_seed, run,
                   first_trace, first_final, orchVars>>

\* The first run has returned: its result is kept, the generator is given
\* the same seed again and run_all_strategies is called with the same
\* arguments.
SecondRun ==
    /\ pc = "returned"
    /\ run = 1
    /\ run' = 2
    /\ first_final' = summary_final
    /\ first_trace' = trace
    /\ trace' = <<>>
    /\ rng' = rng_seed
    /\ summary' = [k \in PolicyIds |-> <<>>]
    /\ summary_final' = <<>>
    /\ sim' = 0
    /\ mc' = 0
    /\ pc' = "simulate"
    /\ UNCHANGED <<variant, strategy_id, results, i, position_size, state,
                   equity, cumulative_equity, total_profit, drawdown, sizes,
                   modes, genVars, mode, breakeven, rng_seed, orchVars>>

SeededNext ==
    \/ SeededSimulate
    \/ SeededShuffle
    \/ CallStatic
    \/ CallDynamic
    \/ DynStep
    \/ DynReturn
    \/ AppendSample
    \/ Rank
    \/ SecondRun

SpecSeeded == SeededInit /\ [][SeededNext]_vars

simVars == <<variant, gen_args, mode, breakeven, coreVars, seedVars>>

\* Their values while only the orchestrator is modelled.
SimIdle ==
    /\ variant = "dps_sub"
    /\ gen_args = [hit_rate |-> 50, avg_win |-> 100, avg_loss |-> 100]
    /\ mode = "No Markov"
    /\ breakeven = [kind |-> "unset", num |-> 0, den |-> 1]
    /\ CoreIdle
    /\ SeedIdle

\* total_runs = 12 of dps.main.
total_runs == 12

\* max_workers = 3 of the ThreadPoolExecutor.
max_workers == 3

\* hit_rate of input.json, in hundredths.
BaseHitRates == {60, 75}

\* hit_rates = [base_hit - 0.1, base_hit - 0.05, base_hit].
hit_rates(base_hit) == <<base_hit - 10, base_hit - 5, base_hit>>

\* The four modes of one hit rate, in the order the loop body appends them:
\* the label of the run and the flag added to its command.
RunModes == <<[label |-> "without Markov", flag |-> ""],
              [label |-> "with Markov 1.Ord", flag |-> "--use_markov"],
              [label |-> "with Markov 2.Ord", flag |-> "--use_markov2"],
              [label |-> "with Regime-Switching-Modell", flag |-> "--use_regime"]>>

\* html_run_header(run_idx, total_runs, hit_rate, mode).
html_run_header(run_idx, total, hit_rate, label) ==
    [run_idx |-> run_idx, total_runs |-> total, hit_rate |-> hit_rate,
     mode |-> label]

\* The loop over hit_rates: run_counter counts from 1, and each hit rate
\* contributes four runs.  Element n belongs to hit rate (n - 1) \div 4 + 1 and
\* to mode (n - 1) % 4 + 1.
BuildCmds(base_hit) ==
    [n \in 1..(Len(hit_rates(base_hit)) * Len(RunModes)) |->
        LET hit_rate == hit_rates(base_hit)[((n - 1) \div Len(RunModes)) + 1]
            m == RunModes[((n - 1) % Len(RunModes)) + 1]
        IN  [idx |-> n,
             cmd |-> [hit_rate |-> hit_rate, flag |-> m.flag],
             label |-> m.label,
             hit_rate |-> hit_rate]]

BuildBlocks(base_hit) ==
    [n \in 1..(Len(hit_rates(base_hit)) * Len(RunModes)) |->
        LET hit_rate == hit_rates(base_hit)[((n - 1) \div Len(RunModes)) + 1]
            m == RunModes[((n - 1) % Len(RunModes)) + 1]
        IN  html_run_header(n, total_runs, hit_rate, m.label)]

\* What the subprocess started with cmd prints: the report of that command.
Stdout(cmd) == [report_of |-> cmd]

\* ansi_to_html(text): the text wrapped in a monospace div.
ansi_to_html(text) == [div |-> text]

\* Return codes a simulation subprocess ends with.
ReturnCodes == {0, 1, 2}

\* What future.result() gives: the return code of the subprocess, or the
\* exception run_simulation raised.
RunResults ==
    [raised : {FALSE}, returncode : ReturnCodes]
        \cup {[raised |-> TRUE, returncode |-> -1]}

\* html_tables.sort(key=lambda x: x[0]): a stable ascending sort by run index.
RECURSIVE InsertByIdx(_, _)
InsertByIdx(s, x) ==
    IF s = <<>> THEN <<x>>
    ELSE IF x[1] < Head(s)[1] THEN <<x>> \o s
    ELSE <<Head(s)>> \o InsertByIdx(Tail(s), x)

RECURSIVE SortByIdxFrom(_, _)
SortByIdxFrom(s, acc) ==
    IF s = <<>> THEN acc
    ELSE SortByIdxFrom(Tail(s), InsertByIdx(acc, Head(s)))

SortByIdx_unsorted(s) == s

SortByIdx(s) == SortByIdxFrom(s, <<>>)

\* zip(html_blocks, html_tables): pairs up to the shorter length.
Zip(a, b) ==
    [n \in 1..(IF Len(a) < Len(b) THEN Len(a) ELSE Len(b)) |-> <<a[n], b[n]>>]

\* The result files in the order dps.main writes them.
ResultFiles == <<"HTML", "CSV", "XLSX", "JSON", "Parquet", "SQLite">>

\* The state when the pool is entered: the commands and header blocks are
\* built and all twelve runs are submitted.
PoolInit ==
    /\ SimIdle
    /\ pc = "pool"
    /\ \E base_hit \in BaseHitRates :
        /\ simulation_cmds = BuildCmds(base_hit)
        /\ html_blocks = BuildBlocks(base_hit)
    /\ system_exit = -1
    /\ returncodes = [n \in 1..total_runs |-> -1]
    /\ running = {}
    /\ started = 0
    /\ html_tables = <<>>
    /\ html_file = <<>>
    /\ files = {}
    /\ exit_code = -1
    /\ stdin = <<>>
    /\ readers = {}
    /\ queues = <<>>
    /\ typed = <<>>
    /\ answer = "unset"
    /\ run_api = "unset"
    /\ api_timeout = 0
    /\ elapsed = 0
    /\ timer = "none"
    /\ server = "none"
    /\ gets = 0

promptVars == <<stdin, readers, queues, typed, answer, run_api>>

apiVars == <<api_timeout, elapsed, timer, server, gets>>

\* A free worker takes the next submitted run from the work queue.
StartRun ==
    /\ pc = "pool"
    /\ started < Len(simulation_cmds)
    /\ Cardinality(running) < max_workers
    /\ started' = started + 1
    /\ running' = running \cup {started + 1}
    /\ UNCHANGED <<pc, simVars, simulation_cmds, html_blocks, system_exit,
                   returncodes, html_tables, html_file, files, exit_code,
                   promptVars, apiVars>>

\* SystemExit(code) raised in the loop body: except Exception does not catch
\* it, it leaves the with block, where the executor waits for the runs still
\* queued or running without anything looking at their results, and the
\* process ends with that code.
SysExit(code) ==
    /\ system_exit' = code
    /\ exit_code' = code
    /\ running' = {}
    /\ started' = Len(simulation_cmds)
    /\ html_tables' = <<>>
    /\ pc' = "exited"

\* A variant of the loop body that keeps the output whatever the return code.
Collect_ignore_returncode(idx, result) ==
    /\ pc = "pool"
    /\ idx \in running
    /\ running' = running \ {idx}
    /\ returncodes' = [returncodes EXCEPT ![idx] = result.returncode]
    /\ html_tables' = Append(html_tables,
            <<idx, ansi_to_html(Stdout(simulation_cmds[idx].cmd))>>)
    /\ pc' = IF Len(html_tables') = Len(simulation_cmds)
             THEN "collected" ELSE "pool"
    /\ UNCHANGED <<simVars, simulation_cmds, html_blocks, system_exit, started,
                   html_file, files, exit_code, promptVars, apiVars>>

\* One iteration of the as_completed loop: run idx completes with the given
\* result and the loop body handles it.
Collect(idx, result) ==
    /\ pc = "pool"
    /\ idx \in running
    /\ returncodes' = [returncodes EXCEPT ![idx] = result.returncode]
    /\ IF result.raised
       THEN SysExit(1)
       ELSE IF result.returncode # 0
       THEN SysExit(result.returncode)
       ELSE /\ html_tables' = Append(html_tables,
                    <<idx, ansi_to_html(Stdout(simulation_cmds[idx].cmd))>>)
            /\ running' = running \ {idx}
            /\ pc' = IF Len(html_tables') = Len(simulation_cmds)
                     THEN "collected" ELSE "pool"
            /\ UNCHANGED <<system_exit, exit_code, started>>
    /\ UNCHANGED <<simVars, simulation_cmds, html_blocks, html_file,
                   files, promptVars, apiVars>>

\* The sort by run number and the HTML overview.
WriteHtml ==
    /\ pc = "collected"
    /\ html_tables' = SortByIdx(html_tables)
    /\ html_file' = [n \in DOMAIN Zip(html_blocks, html_tables') |->
                        <<Zip(html_blocks, html_tables')[n][1],
                          Zip(html_blocks, html_tables')[n][2][2]>>]
    /\ files' = files \cup {ResultFiles[1]}
    /\ pc' = "export"
    /\ UNCHANGED <<simVars, simulation_cmds, html_blocks, system_exit,
                   returncodes, running, started, exit_code, promptVars,
                   apiVars>>

\* The next export: CSV, XLSX, JSON, Parquet, SQLite.
WriteExport ==
    /\ pc = "export"
    /\ Cardinality(files) < Len(ResultFiles)
    /\ files' = files \cup {ResultFiles[Cardinality(files) + 1]}
    /\ pc' = IF Cardinality(files') = Len(ResultFiles) THEN "saved" ELSE "export"
    /\ UNCHANGED <<simVars, simulation_cmds, html_blocks, system_exit,
                   returncodes, running, started, html_tables, html_file,
                   exit_code, promptVars, apiVars>>

PoolNext ==
    \/ StartRun
    \/ \E idx \in 1..total_runs, result \in RunResults :
          Collect(idx, result)
    \/ WriteHtml
    \/ WriteExport

SpecPool == PoolInit /\ [][PoolNext]_vars

\* The HTML overview is written.
HtmlWritten == ResultFiles[1] \in files

\* C37: for every completion order of the twelve runs on the three-worker
\* pool, once all have succeeded the collected outputs are ordered by run
\* index 1..12, and the k-th header block, which carries the hit rate and the
\* mode of run k, is written together with the output of run k.
C37_HeaderMatchesRun ==
    HtmlWritten =>
        /\ Len(html_tables) = total_runs
        /\ Len(html_file) = total_runs
        /\ \A k \in 1..total_runs :
            /\ html_tables[k][1] = k
            /\ html_blocks[k].run_idx = k
            /\ html_blocks[k].hit_rate = simulation_cmds[k].cmd.hit_rate
            /\ html_blocks[k].mode = simulation_cmds[k].label
            /\ html_file[k] = <<html_blocks[k],
                                ansi_to_html(Stdout(simulation_cmds[k].cmd))>>

\* All twelve runs succeeded and the overview holds twelve pairs; the last
\* pair is that of the regime-switching run at the base hit rate.
C37_Witness ==
    /\ HtmlWritten
    /\ \A k \in 1..total_runs : returncodes[k] = 0
    /\ Len(html_file) = total_runs
    /\ html_file[total_runs][1].mode = "with Regime-Switching-Modell"
    /\ html_file[total_runs][2] # html_file[1][2]

MaxApiTimeout == 2

\* Largest number of GET requests served while the API is up.
MaxGets == 2

\* api_timeout of the configuration.
ApiTimeouts == 0..MaxApiTimeout

\* Lines a user types, with the newline readline() returns.
Lines == {"y\n", "Y\n", " n\n"}

\* str.strip() on the lines above.
strip(line) ==
    CASE line = "y\n" -> "y"
      [] line = "Y\n" -> "Y"
      [] line = " n\n" -> "n"
      [] OTHER -> line

\* str.lower().
lower(text) == IF text = "Y" THEN "y" ELSE text

\* default="n" of timed_input.
default == "n"

\* The state when main reaches the first prompt: the result files are written,
\* the first timed_input call has started its reader thread and is joining it.
ApiInit ==
    /\ SimIdle
    /\ pc = "prompt1"
    /\ simulation_cmds = <<>>
    /\ html_blocks = <<>>
    /\ system_exit = -1
    /\ returncodes = <<>>
    /\ running = {}
    /\ started = 0
    /\ html_tables = <<>>
    /\ html_file = <<>>
    /\ files = {ResultFiles[n] : n \in DOMAIN ResultFiles}
    /\ exit_code = -1
    /\ stdin = <<>>
    /\ readers = {1}
    /\ queues = <<<<>>, <<>>>>
    /\ typed = <<"", "">>
    /\ answer = "unset"
    /\ run_api = "unset"
    /\ api_timeout \in ApiTimeouts
    /\ elapsed = 0
    /\ timer = "none"
    /\ server = "none"
    /\ gets = 0

poolVars == <<simulation_cmds, html_blocks, system_exit, returncodes, running,
              started, html_tables, html_file, files>>

\* The prompt on screen: 1 while the first timed_input call waits, 2 while the
\* second does, 0 otherwise.
PromptShown == IF pc = "prompt1" THEN 1 ELSE IF pc = "prompt2" THEN 2 ELSE 0

\* The user types a line while a prompt is shown.
UserTypes(line) ==
    /\ PromptShown # 0
    /\ typed[PromptShown] = ""
    /\ typed' = [typed EXCEPT ![PromptShown] = line]
    /\ stdin' = Append(stdin, line)
    /\ UNCHANGED <<pc, simVars, poolVars, exit_code, readers, queues, answer,
                   run_api, apiVars>>

\* ask() of reader thread t: sys.stdin.readline() returns the next line, the
\* thread puts it stripped on the queue of its own call and ends.  All blocked
\* readers read the same stdin; which of them a line wakes is not decided by
\* dps.py.
ReaderGets(t) ==
    /\ exit_code = -1
    /\ t \in readers
    /\ stdin # <<>>
    /\ queues' = [queues EXCEPT ![t] = Append(@, strip(Head(stdin)))]
    /\ stdin' = Tail(stdin)
    /\ readers' = readers \ {t}
    /\ UNCHANGED <<pc, simVars, poolVars, exit_code, typed, answer, run_api,
                   apiVars>>

\* The value timed_input call t returns once t.join(timeout) is over: the
\* default if the reader is still alive, else what the reader put on the
\* queue.  A line already typed reaches a blocked reader before the timeout
\* is noticed.
timed_input_ready(t) ==
    \/ t \notin readers
    \/ stdin = <<>>

timed_input(t) ==
    IF t \in readers THEN lower(default) ELSE lower(Head(queues[t]))

\* answer = timed_input("Do you want to continue? [y/N]: ", ...) returns and
\* the second call starts its reader thread.
Prompt1Returns ==
    /\ pc = "prompt1"
    /\ timed_input_ready(1)
    /\ answer' = timed_input(1)
    /\ readers' = readers \cup {2}
    /\ pc' = "prompt2"
    /\ UNCHANGED <<simVars, poolVars, exit_code, stdin, queues, typed,
                   run_api, apiVars>>

\* run_api = timed_input("Should the REST API be started? (y/n): ") returns.
\* With "y" start_api stores the data, starts the timer thread and enters
\* app.run; otherwise main returns and the process ends.
Prompt2Returns ==
    /\ pc = "prompt2"
    /\ timed_input_ready(2)
    /\ run_api' = timed_input(2)
    /\ IF run_api' = "y"
       THEN /\ pc' = "app_run"
            /\ timer' = "sleeping"
            /\ server' = "starting"
            /\ UNCHANGED exit_code
       ELSE /\ pc' = "returned"
            /\ exit_code' = 0
            /\ UNCHANGED <<timer, server>>
    /\ UNCHANGED <<simVars, poolVars, stdin, readers, queues, typed, answer,
                   api_timeout, elapsed, gets>>

\* app.run binds the port and serves.
ServerUp ==
    /\ exit_code = -1
    /\ server = "starting"
    /\ server' = "serving"
    /\ UNCHANGED <<pc, simVars, poolVars, exit_code, promptVars, api_timeout,
                   elapsed, timer, gets>>

\* app.run cannot bind the port: the error leaves main and the process ends.
AppRunFails ==
    /\ exit_code = -1
    /\ server = "starting"
    /\ server' = "none"
    /\ exit_code' = 1
    /\ pc' = "raised"
    /\ UNCHANGED <<simVars, poolVars, promptVars, api_timeout, elapsed, timer,
                   gets>>

\* GET /api/simulations is served.
GetSimulations ==
    /\ exit_code = -1
    /\ server = "serving"
    /\ gets < MaxGets
    /\ gets' = gets + 1
    /\ UNCHANGED <<pc, simVars, poolVars, exit_code, promptVars, api_timeout,
                   elapsed, timer, server>>

\* One second of time.sleep(timeout_duration) in stop_server.
TimerTick ==
    /\ exit_code = -1
    /\ timer = "sleeping"
    /\ elapsed < api_timeout
    /\ elapsed' = elapsed + 1
    /\ UNCHANGED <<pc, simVars, poolVars, exit_code, promptVars, api_timeout,
                   timer, server, gets>>

\* The sleep is over: stop_server sends POST /shutdown.
TimerPosts ==
    /\ exit_code = -1
    /\ timer = "sleeping"
    /\ elapsed = api_timeout
    /\ timer' = "posting"
    /\ UNCHANGED <<pc, simVars, poolVars, exit_code, promptVars, api_timeout,
                   elapsed, server, gets>>

\* The server handles POST /shutdown: no shutdown function is in the request
\* environment, and os._exit(0) ends the process.
ShutdownHandler ==
    /\ exit_code = -1
    /\ timer = "posting"
    /\ server = "serving"
    /\ exit_code' = 0
    /\ timer' = "done"
    /\ UNCHANGED <<pc, simVars, poolVars, promptVars, api_timeout, elapsed,
                   server, gets>>

\* A variant of the except branch of stop_server that only prints.
PostFails_print_only ==
    /\ exit_code = -1
    /\ timer = "posting"
    /\ server # "serving"
    /\ timer' = "done"
    /\ UNCHANGED <<pc, simVars, poolVars, exit_code, promptVars, api_timeout,
                   elapsed, server, gets>>

\* requests.post raises RequestException because nothing listens yet:
\* stop_server prints and calls os._exit(0).
PostFails ==
    /\ exit_code = -1
    /\ timer = "posting"
    /\ server # "serving"
    /\ exit_code' = 0
    /\ timer' = "done"
    /\ UNCHANGED <<pc, simVars, poolVars, promptVars, api_timeout, elapsed,
                   server, gets>>

ApiNext ==
    \/ \E line \in Lines : UserTypes(line)
    \/ \E t \in {1, 2} : ReaderGets(t)
    \/ Prompt1Returns
    \/ Prompt2Returns
    \/ ServerUp
    \/ AppRunFails
    \/ GetSimulations
    \/ TimerTick
    \/ TimerPosts
    \/ ShutdownHandler
    \/ PostFails

SpecApi == ApiInit /\ [][ApiNext]_vars

\* The scheduling start_api relies on: time.sleep returns after its seconds,
\* the timer thread sends its request, app.run gets out of its start-up, and
\* the request is answered or fails.
ApiFairness ==
    /\ WF_vars(TimerTick)
    /\ WF_vars(TimerPosts)
    /\ WF_vars(ServerUp \/ AppRunFails)
    /\ WF_vars(ShutdownHandler)
    /\ WF_vars(PostFails)

SpecApiLive == SpecApi /\ ApiFairness

\* C39: a line the user types at the second prompt before its timeout is the
\* value the second timed_input call returns, also when the first prompt timed
\* out and left its reader thread blocked on stdin.
C39_SecondPromptReturnsTypedLine ==
    (run_api # "unset" /\ typed[2] # "") => run_api = lower(strip(typed[2]))

\* C40: after start_api the server process always eventually terminates.
C40_ApiEventuallyTerminates ==
    (timer = "sleeping") ~> (exit_code # -1)

\* The timer thread has slept its timeout, its request was handled by the
\* serving server after a GET, and the process has ended with code 0.
C40_Witness ==
    /\ run_api = "y"
    /\ timer = "done"
    /\ server = "serving"
    /\ elapsed = api_timeout
    /\ api_timeout > 0
    /\ gets > 0
    /\ exit_code = 0

====
